---------------------------- MODULE Spec2Model ----------------------------
(***************************************************************************)
(* A model of the vinyl-list matching and reconciliation engine.           *)
(*                                                                         *)
(* Four specifications share one set of variables:                         *)
(*   SpecHttp      the retrying HTTP invoker      (src/http_client.py)     *)
(*   SpecPure      the pure helper functions      (src/helpers.py,         *)
(*                                                 src/discogs_api.py)     *)
(*   Spec          the per-image match resolver   (src/workflows.py)       *)
(*   SpecRecon     the reconciliation workflows   (src/workflows.py,       *)
(*                                                 src/discogs_api.py)     *)
(* A specification leaves the variables of the other three at Idle.        *)
(***************************************************************************)
EXTENDS Integers, Sequences, FiniteSets, TLC

VARIABLES
    h,        \* the retry loop of one http_get_with_retry / http_post_with_retry call
    p,        \* one application of a pure function: its arguments and its result
    img,      \* the label result (Vision response) of the image being resolved
    rs,       \* the locals of process_vision_responses for that image
    reqs,     \* the catalog requests issued for that image, in order
    row,      \* the report row emitted for that image
    coll,     \* remote collection: the instances, by instance id
    folders,  \* remote collection: folder name -> folder id
    wf,       \* the locals of the reconciliation workflow being run
    sent,     \* the mutating requests sent to the remote collection, in order
    faults    \* the requests of the run the remote has failed so far

vars == <<h, p, img, rs, reqs, row, coll, folders, wf, sent, faults>>

httpVars  == <<h>>
pureVars  == <<p>>
resVars   == <<img, rs, reqs, row>>
reconVars == <<coll, folders, wf, sent, faults>>

\* The value of every variable a specification does not use.
Idle == "idle"

\* Python's None where an id is expected: the code tests ids for truth only.
NoneId == 0

Min(a, b) == IF a < b THEN a ELSE b

RECURSIVE Pow2(_)
Pow2(n) == IF n <= 0 THEN 1 ELSE 2 * Pow2(n - 1)

-----------------------------------------------------------------------------
(***************************************************************************)
(* src/http_client.py: http_get_with_retry, http_post_with_retry           *)
(***************************************************************************)

\* The largest `tries` a call is made with in the model.
MaxTries == 3

\* What one attempt can meet: a response with a status, or a network
\* exception raised by requests.get / requests.post (status 0).
NetExc == 0
Statuses == {200, 404, 409, 429, 500, 503}
\* The Retry-After header of a 429 response: absent, an integer, or unparsable.
RetryAfterKinds == {"absent", "int", "bad"}
Outcomes ==
    [status : (Statuses \ {429}) \cup {NetExc}, retry_after : {"absent"}]
      \cup [status : {429}, retry_after : RetryAfterKinds]

\* `r.status_code in (429, 500, 502, 503, 504)`
IsTransientStatus(s) == s \in {429, 500, 502, 503, 504}

\* r.raise_for_status() raises for 400..599.
RaiseForStatusRaises(s) == s >= 400 /\ s <= 599

\* An attempt fails when requests raises, or the status is transient, or
\* raise_for_status raises.
AttemptFails(o) ==
    o.status = NetExc \/ IsTransientStatus(o.status) \/ RaiseForStatusRaises(o.status)

\* bool(requests.Response) is Response.ok: false for every 4xx/5xx response.
ResponseTruthy(s) == s /= NetExc /\ ~RaiseForStatusRaises(s)

\* The sleep before the next attempt, in units of base_delay (jitter aside);
\* <<>> when the handler sleeps not at all.
GetSleep(o, attempt) ==
    IF o.status = NetExc
      THEN <<[kind |-> "backoff", units |-> Pow2(attempt - 1)]>>
    ELSE IF o.status = 429
      THEN IF o.retry_after = "int"
             THEN <<[kind |-> "retry_after", units |-> 0]>>
           ELSE IF o.retry_after = "bad"
             THEN <<[kind |-> "backoff", units |-> Pow2(attempt - 1)]>>
           ELSE <<[kind |-> "backoff", units |-> Pow2(attempt - 1) * 2]>>
    ELSE \* `if e.response and e.response.status_code != 429`
         IF ResponseTruthy(o.status) /\ o.status /= 429
           THEN <<[kind |-> "backoff", units |-> Pow2(attempt - 1)]>>
           ELSE <<>>

PostSleep(o, attempt) == <<[kind |-> "backoff", units |-> Pow2(attempt - 1)]>>

\* The sleeps of one failed attempt that is not the last, tagged with the attempt.
SleepsAfter(verb, o, attempt) ==
    LET s == IF verb = "GET" THEN GetSleep(o, attempt) ELSE PostSleep(o, attempt)
    IN  [i \in 1..Len(s) |->
           [after |-> attempt, kind |-> s[i].kind, units |-> s[i].units]]

\* `if attempt == tries: raise` (and `if attempt < tries: ... continue` on 429).
LastAttempt_OffByOne(attempt, tries) == attempt = tries + 1
LastAttempt(attempt, tries) == attempt = tries

HttpCalls ==
    [verb : {"GET", "POST"}, tries : 0..MaxTries]

InitHttp ==
    /\ \E c \in HttpCalls :
         h = [verb |-> c.verb, tries |-> c.tries, attempt |-> 1, pc |-> "loop",
              log |-> <<>>, sleeps |-> <<>>,
              result |-> [kind |-> "pending", attempt |-> 0, status |-> 0]]
    /\ p = Idle /\ img = Idle /\ rs = Idle /\ reqs = Idle /\ row = Idle
    /\ coll = Idle /\ folders = Idle /\ wf = Idle /\ sent = Idle /\ faults = Idle

\* One pass through the body of `for attempt in range(1, tries + 1)`: the
\* request is sent and its outcome handled (return, raise, or sleep and go on).
HttpAttempt ==
    /\ h.pc = "loop"
    /\ h.attempt <= h.tries
    /\ \E o \in Outcomes :
         LET a == h.attempt
             log2 == Append(h.log, o)
         IN  IF ~AttemptFails(o)
               THEN h' = [h EXCEPT !.log = log2, !.pc = "done",
                            !.result = [kind |-> "return", attempt |-> a,
                                        status |-> o.status]]
             ELSE IF LastAttempt(a, h.tries)
               THEN h' = [h EXCEPT !.log = log2, !.pc = "done",
                            !.result = [kind |-> "raise", attempt |-> a,
                                        status |-> o.status]]
             ELSE h' = [h EXCEPT !.log = log2, !.attempt = a + 1,
                          !.sleeps = @ \o SleepsAfter(h.verb, o, a)]
    /\ UNCHANGED <<pureVars, resVars, reconVars>>

\* The for loop ends without a return or a raise: the function returns None.
HttpFallThrough ==
    /\ h.pc = "loop"
    /\ h.attempt > h.tries
    /\ h' = [h EXCEPT !.pc = "done",
               !.result = [kind |-> "none", attempt |-> 0, status |-> 0]]
    /\ UNCHANGED <<pureVars, resVars, reconVars>>

NextHttp == HttpAttempt \/ HttpFallThrough

\* The call is a blocking loop of one thread: it keeps running until it ends.
SpecHttp == InitHttp /\ [][NextHttp]_vars /\ WF_vars(NextHttp)

-----------------------------------------------------------------------------
(***************************************************************************)
(* src/helpers.py: confidence_bucket                                       *)
(* src/discogs_api.py: validate_release_is_vinyl_and_us                    *)
(***************************************************************************)

confidence_bucket_UsOnlyForMaster(method, has_discogs_candidates, is_vinyl, is_us) ==
    IF method = "release_url" /\ is_vinyl /\ is_us THEN "high"
    ELSE IF method = "master_url" /\ is_vinyl /\ is_us THEN "medium"
    ELSE IF method = "search_fallback" /\ is_vinyl /\ is_us /\ has_discogs_candidates
      THEN "low"
    ELSE IF method = "search_fallback" THEN "very_low"
    ELSE "unknown"
\* confidence_bucket, branch by branch.
confidence_bucket(method, has_discogs_candidates, is_vinyl, is_us) ==
    IF method = "release_url" /\ is_vinyl /\ is_us THEN "high"
    ELSE IF method = "master_url" /\ is_vinyl /\ is_us THEN "medium"
    ELSE IF method = "master_url" /\ is_vinyl THEN "medium"
    ELSE IF method = "search_fallback" /\ is_vinyl /\ is_us /\ has_discogs_candidates
      THEN "low"
    ELSE IF method = "search_fallback" /\ is_vinyl THEN "very_low"
    ELSE IF method = "search_fallback" THEN "very_low"
    ELSE "unknown"

\* The strings the model's releases are written with, and str.strip, str.lower
\* and str.upper on them.
FormatNames == {"Vinyl", "vinyl", " VINYL ", "CD", "Cassette", ""}
Countries == {"US", "us", " US ", "UK", "Germany", ""}

Strip(s) ==
    CASE s = " VINYL " -> "VINYL"
      [] s = " US "    -> "US"
      [] s = " vinyl " -> "vinyl"
      [] s = " us "    -> "us"
      [] s = " "       -> ""
      [] OTHER         -> s

Lower(s) ==
    CASE s \in {"Vinyl", "vinyl", "VINYL"} -> "vinyl"
      [] s = "CD"                          -> "cd"
      [] s = "Cassette"                    -> "cassette"
      [] s \in {"US", "us"}                -> "us"
      [] s = "UK"                          -> "uk"
      [] s = "Germany"                     -> "germany"
      [] s = " VINYL "                     -> " vinyl "
      [] s = " US "                        -> " us "
      [] OTHER                             -> s

Upper(s) ==
    CASE s \in {"Vinyl", "vinyl", "VINYL"} -> "VINYL"
      [] s = "cd"                          -> "CD"
      [] s \in {"Cassette", "cassette"}    -> "CASSETTE"
      [] s \in {"US", "us"}                -> "US"
      [] s = "uk"                          -> "UK"
      [] s \in {"Germany", "germany"}      -> "GERMANY"
      [] s = " vinyl "                     -> " VINYL "
      [] s = " us "                        -> " US "
      [] OTHER                             -> s

\* A release as the catalog returns it; `empty` for a body that is {}.
ReleaseData(formats, country) ==
    [empty |-> FALSE, formats |-> formats, country |-> country]
EmptyReleaseData == [empty |-> TRUE, formats |-> <<>>, country |-> ""]

\* The index of the first format whose stripped, lower-cased name is "vinyl";
\* 0 when there is none (the loop runs to the end).
RECURSIVE FirstVinylFrom_CaseSensitive(_, _)
FirstVinylFrom_CaseSensitive(formats, i) ==
    IF i > Len(formats) THEN 0
    ELSE IF Strip(formats[i]) = "vinyl" THEN i
    ELSE FirstVinylFrom_CaseSensitive(formats, i + 1)
RECURSIVE FirstVinylFrom(_, _)
FirstVinylFrom(formats, i) ==
    IF i > Len(formats) THEN 0
    ELSE IF Lower(Strip(formats[i])) = "vinyl" THEN i
    ELSE FirstVinylFrom(formats, i + 1)

\* format_names: the stripped names the loop has appended when it ends.
FormatNamesScanned(formats) ==
    LET k == FirstVinylFrom(formats, 1)
        n == IF k = 0 THEN Len(formats) ELSE k
    IN  [i \in 1..n |-> Strip(formats[i])]

\* validate_release_is_vinyl_and_us -> (is_vinyl, is_us, reason); a reason is
\* the sequence of the pieces its f-string joins, "" is <<>>.
validate_release_is_vinyl_and_us(release_data) ==
    IF release_data.empty
      THEN [is_vinyl |-> FALSE, is_us |-> FALSE, reason |-> <<"No release data">>]
    ELSE IF FirstVinylFrom(release_data.formats, 1) = 0
      THEN [is_vinyl |-> FALSE, is_us |-> FALSE,
            reason |-> <<"Not vinyl (formats: ">>
                         \o FormatNamesScanned(release_data.formats) \o <<")">>]
    ELSE LET country == Strip(release_data.country)
         IN  IF Upper(country) = "US"
               THEN [is_vinyl |-> TRUE, is_us |-> TRUE, reason |-> <<"Vinyl, US">>]
             ELSE IF country /= ""
               THEN [is_vinyl |-> TRUE, is_us |-> FALSE,
                     reason |-> <<"Vinyl, ", country, " (not US)">>]
             ELSE [is_vinyl |-> TRUE, is_us |-> FALSE,
                   reason |-> <<"Vinyl, country not specified">>]

\* The methods confidence_bucket is called with: the three the resolver
\* assigns, "unknown" (`match_method or "unknown"`), and "none".
Methods == {"release_url", "master_url", "search_fallback", "none", "unknown"}

\* The longest format list of a release drawn for validate_release_is_vinyl_and_us.
MaxFormats == 2

SeqsUpTo(S, n) == UNION {[1..k -> S] : k \in 0..n}

ConfidenceInputs ==
    [fn : {"confidence_bucket"}, method : Methods,
     has_discogs_candidates : BOOLEAN, is_vinyl : BOOLEAN, is_us : BOOLEAN]

ValidateInputs ==
    [fn : {"validate_release_is_vinyl_and_us"},
     release_data : {EmptyReleaseData} \cup
                    {ReleaseData(f, c) : f \in SeqsUpTo(FormatNames, MaxFormats),
                                         c \in Countries}]

InitPure ==
    /\ \E in \in ConfidenceInputs \cup ValidateInputs :
         p = [in |-> in, done |-> FALSE, out |-> <<>>]
    /\ h = Idle /\ img = Idle /\ rs = Idle /\ reqs = Idle /\ row = Idle
    /\ coll = Idle /\ folders = Idle /\ wf = Idle /\ sent = Idle /\ faults = Idle

ApplyConfidence ==
    /\ ~p.done
    /\ p.in.fn = "confidence_bucket"
    /\ p' = [p EXCEPT !.done = TRUE,
               !.out = <<confidence_bucket(p.in.method, p.in.has_discogs_candidates,
                                           p.in.is_vinyl, p.in.is_us)>>]
    /\ UNCHANGED <<httpVars, resVars, reconVars>>

ApplyValidate ==
    /\ ~p.done
    /\ p.in.fn = "validate_release_is_vinyl_and_us"
    /\ p' = [p EXCEPT !.done = TRUE,
               !.out = <<validate_release_is_vinyl_and_us(p.in.release_data)>>]
    /\ UNCHANGED <<httpVars, resVars, reconVars>>

NextPure == ApplyConfidence \/ ApplyValidate

SpecPure == InitPure /\ [][NextPure]_vars

-----------------------------------------------------------------------------
(***************************************************************************)
(* src/helpers.py: split_top_candidate_urls, extract_release_or_master     *)
(* src/discogs_api.py: discogs_get_release, discogs_release_from_master    *)
(* src/workflows.py: process_vision_responses, for one image               *)
(***************************************************************************)

\* Python's None where a string is expected.
PyNone == "<None>"
\* `if s:` for a string or None.
Truthy(s) == s /= PyNone /\ s /= ""

\* The catalog the resolver runs against: release id -> release body.
\*   1 vinyl, US      2 vinyl, UK      3 vinyl, no country
\*   4 not vinyl      5 vinyl, US (written " VINYL ", " US ")
Catalog ==
    << ReleaseData(<<"Vinyl">>, "US"),
       ReleaseData(<<"Vinyl">>, "UK"),
       ReleaseData(<<"CD", "vinyl">>, ""),
       ReleaseData(<<"CD">>, "US"),
       ReleaseData(<<" VINYL ">>, " US ") >>
ReleaseIds == 1..Len(Catalog)

\* master id -> main_release (NoneId when absent) and the pages of its versions.
\*   1 wrong-region main, a preferred version on the second page
\*   2 preferred main                3 no main, no preferred version
\*   4 nothing target-format         5 preferred version followed by another
\*   6 a version without id, then target-format versions only
Masters ==
    << [main_release |-> 2, versions |-> << <<4, 3>>, <<5>> >>],
       [main_release |-> 1, versions |-> << <<5>> >>],
       [main_release |-> NoneId, versions |-> << <<3, 2>>, <<4>> >>],
       [main_release |-> 4, versions |-> << <<4>>, <<>> >>],
       [main_release |-> 2, versions |-> << <<3>>, <<1, 5>> >>],
       [main_release |-> 4, versions |-> << <<NoneId, 2>>, <<3>> >>] >>
\* The masters that the pages of the images refer to.
MasterIds == {1}

\* A matching-page URL: its host, and what its path holds (/release/<id>,
\* /master/<id>, the text "discogs.com" as in
\* https://example.com/discogs.com-review, or none of these).
Url(host, kind, id) == [host |-> host, kind |-> kind, id |-> id]
NoUrl == Url("", "none", NoneId)
Urls ==
    {Url("discogs.com", "release", r) : r \in ReleaseIds}
      \cup {Url("discogs.com", "master", m) : m \in MasterIds}
      \cup {Url("discogs.com", "none", NoneId),
            Url("example.com", "release", 1),
            Url("example.com", "none", NoneId)}

\* `"discogs.com" in u.lower()`: the text is looked for in the whole URL.
IsDiscogsUrl(u) == u.host = "discogs.com" \/ u.kind = "mention"

\* extract_release_or_master(url) -> (mtype, id): the path alone decides.
extract_release_or_master(url) ==
    IF url.kind = "release" THEN <<"release", url.id>>
    ELSE IF url.kind = "master" THEN <<"master", url.id>>
    ELSE <<"none", NoneId>>

Take(s, n) == SubSeq(s, 1, Min(n, Len(s)))

\* The order-preserving de-duplication loop of split_top_candidate_urls.
RECURSIVE Dedup(_, _)
Dedup(urls, acc) ==
    IF urls = <<>> THEN acc
    ELSE LET u == Head(urls)
         IN  Dedup(Tail(urls),
                   IF \E i \in 1..Len(acc) : acc[i] = u THEN acc ELSE Append(acc, u))

\* split_top_candidate_urls(web, limit) -> (discogs, other)
split_top_candidate_urls(pages, limit) ==
    LET dedup == Dedup(pages, <<>>)
    IN  [discogs |-> Take(SelectSeq(dedup, IsDiscogsUrl), limit),
         other   |-> Take(SelectSeq(dedup, LAMBDA u : ~IsDiscogsUrl(u)), limit)]

\* split_top_candidate_urls on its own: the URLs of the pages, with
\* repetitions, and the limit.
MaxUrls == 4
MaxLimit == 2
SplitUrls ==
    {Url("discogs.com", "release", 1), Url("discogs.com", "none", NoneId),
     Url("example.com", "mention", NoneId), Url("example.com", "none", NoneId)}
SplitInputs ==
    [fn : {"split_top_candidate_urls"}, pages : SeqsUpTo(SplitUrls, MaxUrls),
     limit : 1..MaxLimit]

InitSplit ==
    /\ \E in \in SplitInputs : p = [in |-> in, done |-> FALSE, out |-> <<>>]
    /\ h = Idle /\ img = Idle /\ rs = Idle /\ reqs = Idle /\ row = Idle
    /\ coll = Idle /\ folders = Idle /\ wf = Idle /\ sent = Idle /\ faults = Idle

ApplySplit ==
    /\ ~p.done
    /\ p.in.fn = "split_top_candidate_urls"
    /\ p' = [p EXCEPT !.done = TRUE,
               !.out = <<split_top_candidate_urls(p.in.pages, p.in.limit)>>]
    /\ UNCHANGED <<httpVars, resVars, reconVars>>

NextSplit == ApplySplit

SpecSplit == InitSplit /\ [][NextSplit]_vars

\* The number of matching pages harvested, and the limit process_vision_responses
\* passes to split_top_candidate_urls.
HarvestLimit == 10

\* `for page in web.get("pagesWithMatchingImages", [])[:10]`: the (rid, url)
\* pairs of one type, in page order.
Harvest(pages, mtype) ==
    SelectSeq(Take(pages, HarvestLimit),
              LAMBDA u : extract_release_or_master(u)[1] = mtype
                           /\ extract_release_or_master(u)[2] /= NoneId)

\* One catalog request, as logged: what was asked, and whether it was answered
\* (ok) or failed.
Req(op, id, ok) == [op |-> op, id |-> id, ok |-> ok]

\* (release_id, is_vinyl, is_us, reason) as discogs_release_from_master returns it.
MasterResult(id, v, u, reason) ==
    [id |-> id, is_vinyl |-> v, is_us |-> u, reason |-> reason]
NoCandidate == MasterResult(NoneId, FALSE, FALSE, <<>>)

\* `if best_candidate: return best_candidate` / the "no vinyl" result.
BestOrNone(best) ==
    IF best.id /= NoneId THEN best
    ELSE MasterResult(NoneId, FALSE, FALSE, <<"No vinyl releases found in master">>)

\* The versions loop of discogs_release_from_master. pg is the page being
\* read and idx the place in it (0: the page is yet to be fetched); k counts the
\* release fetches of the call; f tells which of them fail (f.fail_fetches) and
\* which page request fails (f.fail_page, 0 for none).
RECURSIVE ScanVersions_LastTarget(_, _, _, _, _, _, _)
ScanVersions_LastTarget(m, pg, idx, k, best, acc, f) ==
    IF pg > Len(m.versions) THEN [result |-> BestOrNone(best), reqs |-> acc]
    ELSE IF idx = 0
      THEN IF f.fail_page = pg
             THEN [result |-> BestOrNone(best),
                   reqs |-> Append(acc, Req("versions", pg, FALSE))]
             ELSE ScanVersions_LastTarget(m, pg, 1, k, best,
                               Append(acc, Req("versions", pg, TRUE)), f)
    ELSE IF idx > Len(m.versions[pg])
      THEN ScanVersions_LastTarget(m, pg + 1, 0, k, best, acc, f)
    ELSE LET v == m.versions[pg][idx]
             acc2 == Append(acc, Req("release", v, k \notin f.fail_fetches))
             val == validate_release_is_vinyl_and_us(Catalog[v])
         IN  IF v = NoneId THEN ScanVersions_LastTarget(m, pg, idx + 1, k, best, acc, f)
             ELSE IF k \in f.fail_fetches
               THEN ScanVersions_LastTarget(m, pg, idx + 1, k + 1, best, acc2, f)
             ELSE IF val.is_vinyl /\ val.is_us
               THEN [result |-> MasterResult(v, TRUE, TRUE, <<"Version: ">> \o val.reason),
                     reqs |-> acc2]
             ELSE IF val.is_vinyl
               THEN ScanVersions_LastTarget(m, pg, idx + 1, k + 1,
                        MasterResult(v, TRUE, FALSE, <<"Version: ">> \o val.reason),
                        acc2, f)
             ELSE ScanVersions_LastTarget(m, pg, idx + 1, k + 1, best, acc2, f)
\* The versions loop of discogs_release_from_master. pg is the page being
\* read and idx the place in it (0: the page is yet to be fetched); k counts the
\* release fetches of the call; f tells which of them fail (f.fail_fetches) and
\* which page request fails (f.fail_page, 0 for none).
RECURSIVE ScanVersions(_, _, _, _, _, _, _)
ScanVersions(m, pg, idx, k, best, acc, f) ==
    IF pg > Len(m.versions) THEN [result |-> BestOrNone(best), reqs |-> acc]
    ELSE IF idx = 0
      THEN IF f.fail_page = pg
             THEN [result |-> BestOrNone(best),
                   reqs |-> Append(acc, Req("versions", pg, FALSE))]
             ELSE ScanVersions(m, pg, 1, k, best,
                               Append(acc, Req("versions", pg, TRUE)), f)
    ELSE IF idx > Len(m.versions[pg])
      THEN ScanVersions(m, pg + 1, 0, k, best, acc, f)
    ELSE LET v == m.versions[pg][idx]
             acc2 == Append(acc, Req("release", v, k \notin f.fail_fetches))
             val == validate_release_is_vinyl_and_us(Catalog[v])
         IN  IF v = NoneId THEN ScanVersions(m, pg, idx + 1, k, best, acc, f)
             ELSE IF k \in f.fail_fetches
               THEN ScanVersions(m, pg, idx + 1, k + 1, best, acc2, f)
             ELSE IF val.is_vinyl /\ val.is_us
               THEN [result |-> MasterResult(v, TRUE, TRUE, <<"Version: ">> \o val.reason),
                     reqs |-> acc2]
             ELSE IF val.is_vinyl /\ best.id = NoneId
               THEN ScanVersions(m, pg, idx + 1, k + 1,
                        MasterResult(v, TRUE, FALSE, <<"Version: ">> \o val.reason),
                        acc2, f)
             ELSE ScanVersions(m, pg, idx + 1, k + 1, best, acc2, f)

\* discogs_release_from_master(master_id) under the failures f: its result and
\* the requests it issues.
discogs_release_from_master(master_id, f) ==
    LET m == Masters[master_id]
        first == <<Req("master", master_id, ~f.fail_master)>>
        mainReq == Req("release", m.main_release, 1 \notin f.fail_fetches)
        main == m.main_release
        val == validate_release_is_vinyl_and_us(Catalog[main])
    IN  IF f.fail_master
          THEN [result |-> MasterResult(NoneId, FALSE, FALSE, <<"Failed to fetch master">>),
                reqs |-> first]
        ELSE IF main = NoneId
          THEN ScanVersions(m, 1, 0, 1, NoCandidate, first, f)
        ELSE IF 1 \in f.fail_fetches
          THEN ScanVersions(m, 1, 0, 2, NoCandidate, Append(first, mainReq), f)
        ELSE IF val.is_vinyl /\ val.is_us
          THEN [result |-> MasterResult(main, TRUE, TRUE, <<"Main release: ">> \o val.reason),
                reqs |-> Append(first, mainReq)]
        ELSE ScanVersions(m, 1, 0, 2,
                 IF val.is_vinyl
                   THEN MasterResult(main, TRUE, FALSE, <<"Main release: ">> \o val.reason)
                   ELSE NoCandidate,
                 Append(first, mainReq), f)

\* The most release fetches one master resolution makes, and the most pages it reads.
RECURSIVE SumLen(_)
SumLen(pages) == IF pages = <<>> THEN 0 ELSE Len(Head(pages)) + SumLen(Tail(pages))
MasterFetches == 1 + SumLen(Masters[1].versions)
MasterPages == Len(Masters[1].versions)
MasterFailures ==
    [fail_master : BOOLEAN, fail_fetches : SUBSET (1..MasterFetches),
     fail_page : 0..MasterPages]

\* discogs_release_from_master on its own: a master of the catalog and the
\* requests of the call that fail.
MasterInputs ==
    [fn : {"discogs_release_from_master"}, master_id : 1..Len(Masters),
     f : MasterFailures]

InitMaster ==
    /\ \E in \in MasterInputs : p = [in |-> in, done |-> FALSE, out |-> <<>>]
    /\ h = Idle /\ img = Idle /\ rs = Idle /\ reqs = Idle /\ row = Idle
    /\ coll = Idle /\ folders = Idle /\ wf = Idle /\ sent = Idle /\ faults = Idle

ApplyMaster ==
    /\ ~p.done
    /\ p.in.fn = "discogs_release_from_master"
    /\ p' = [p EXCEPT !.done = TRUE,
               !.out = <<discogs_release_from_master(p.in.master_id, p.in.f)>>]
    /\ UNCHANGED <<httpVars, resVars, reconVars>>

NextMaster == ApplyMaster

SpecMaster == InitMaster /\ [][NextMaster]_vars

\* An image carries its OCR text (textAnnotations[0].description) as its lines,
\* and the label service's best-guess label.
\* The (text, best guess) pairs the images of the model carry: no text at all,
\* one line with a label that has no separator, one line with a label that has
\* one, and two lines.
LabelTexts ==
    { <<<<>>, PyNone>>,
      <<<<" ", "Artist X">>, "Album W">>,
      <<<<" ", "Artist X">>, "Artist Z - Album W">>,
      <<<<"Artist X", "", "Album Y">>, "Artist Z - Album W">> }

\* `" - " in bgl` and `[s.strip() for s in bgl.split(" - ", 1)]`
HasSeparator(bgl) == bgl = "Artist Z - Album W"
SplitLabel(bgl) == <<"Artist Z", "Album W">>

\* `[p.strip() for p in text.splitlines() if p.strip()]`
RECURSIVE Parts(_)
Parts(lines) ==
    IF lines = <<>> THEN <<>>
    ELSE IF Strip(Head(lines)) /= "" THEN <<Strip(Head(lines))>> \o Parts(Tail(lines))
    ELSE Parts(Tail(lines))

\* The artist and album hints of step D.
Hints(text, bgl) ==
    LET parts == Parts(text)
        fromOcr == IF Len(parts) >= 2 THEN <<parts[1], parts[2]>> ELSE <<PyNone, PyNone>>
    IN  IF ~Truthy(fromOcr[2]) /\ Truthy(bgl) /\ HasSeparator(bgl)
          THEN SplitLabel(bgl) ELSE fromOcr

\* The longest list of matching pages, and of search hits, of the model.
MaxPages == 2
MaxHits == 2

\* What the catalog search may answer: a list of hits, each with the id of a
\* release (NoneId when the hit carries none).
SearchResponses == SeqsUpTo({NoneId, 1, 2, 4}, MaxHits)

\* An error of the response, as `err.get("message")`; "" is no error.
VisionErrors == {"", "vision failed"}

\* One response of the batch: its web pages, its text, its best-guess label,
\* its error, and whether it is the last response of `resp_dicts`.
Images ==
    {[pages |-> pg, text |-> t[1], best_guess |-> t[2], error |-> e, last |-> z] :
        pg \in SeqsUpTo(Urls, MaxPages), t \in LabelTexts,
        e \in VisionErrors, z \in BOOLEAN}

\* The most catalog requests that fail while one image is resolved.
MaxFailures == 2

RECURSIVE FailedIn(_)
FailedIn(rq) ==
    IF rq = <<>> THEN 0
    ELSE (IF Head(rq).ok THEN 0 ELSE 1) + FailedIn(Tail(rq))

\* The catalog has failed no more requests than it may for one image.
WithinFailures(rq) == FailedIn(rq) <= MaxFailures

NoRow == [status |-> "none"]

\* The locals of process_vision_responses at the top of the loop body.
InitialLocals ==
    [pc |-> "begin", i |-> 0,
     has_discogs |-> FALSE, other_candidates |-> <<>>, discogs_candidates |-> <<>>,
     release_candidates |-> <<>>, master_candidates |-> <<>>,
     release_id |-> NoneId, match_url |-> NoUrl, match_method |-> PyNone,
     is_vinyl |-> FALSE, is_us |-> FALSE, match_reason |-> <<>>,
     artist_hint |-> PyNone, album_hint |-> PyNone, search_results |-> <<>>]

Init ==
    /\ img \in {first \in Images : ~first.last}
    /\ rs = InitialLocals
    /\ reqs = <<>>
    /\ row = NoRow
    /\ h = Idle /\ p = Idle
    /\ coll = Idle /\ folders = Idle /\ wf = Idle /\ sent = Idle /\ faults = Idle

\* Where control goes when a pass ends.
EnterSearch(l) ==
    IF l.release_id = NoneId THEN [l EXCEPT !.pc = "search", !.i = 0]
    ELSE [l EXCEPT !.pc = "final", !.i = 0]

\* `if not release_id or not is_us:` guards the master pass.
MasterPassGuard_Always(l) == TRUE
MasterPassGuard(l) == l.release_id = NoneId \/ ~l.is_us

EnterMaster(l) ==
    IF MasterPassGuard(l) /\ Len(l.master_candidates) > 0
      THEN [l EXCEPT !.pc = "master", !.i = 1]
      ELSE EnterSearch(l)

EnterRelease(l) ==
    IF Len(l.release_candidates) > 0 THEN [l EXCEPT !.pc = "release", !.i = 1]
    ELSE EnterMaster(l)

\* Lines 186-207: a label-service error for the image ends it with an error row.
VisionError ==
    /\ rs.pc = "begin"
    /\ img.error /= ""
    /\ rs' = [rs EXCEPT !.pc = "done"]
    /\ row' = [status |-> "review_needed", confidence_level |-> "unknown",
               discogs_release_id |-> NoneId, discogs_url |-> NoUrl,
               candidate_source |-> "none", has_discogs_candidate |-> FALSE,
               artist_hint |-> PyNone, album_hint |-> PyNone,
               error_message |-> img.error, match_reason |-> <<>>]
    /\ UNCHANGED <<img, reqs, httpVars, pureVars, reconVars>>

\* Lines 209-231: split the candidate URLs and harvest the release and master
\* references.
HarvestCandidates_IgnoresError ==
    /\ rs.pc = "begin"
    /\ LET split == split_top_candidate_urls(img.pages, HarvestLimit)
       IN  rs' = EnterRelease(
                   [rs EXCEPT !.discogs_candidates = split.discogs,
                              !.other_candidates = split.other,
                              !.has_discogs = split.discogs /= <<>>,
                              !.release_candidates = Harvest(img.pages, "release"),
                              !.master_candidates = Harvest(img.pages, "master")])
    /\ UNCHANGED <<img, reqs, row, httpVars, pureVars, reconVars>>
HarvestCandidates ==
    /\ rs.pc = "begin"
    /\ img.error = ""
    /\ LET split == split_top_candidate_urls(img.pages, HarvestLimit)
       IN  rs' = EnterRelease(
                   [rs EXCEPT !.discogs_candidates = split.discogs,
                              !.other_candidates = split.other,
                              !.has_discogs = split.discogs /= <<>>,
                              !.release_candidates = Harvest(img.pages, "release"),
                              !.master_candidates = Harvest(img.pages, "master")])
    /\ UNCHANGED <<img, reqs, row, httpVars, pureVars, reconVars>>

\* The body of the release loop (B) for candidate l.i, whose fetch returned
\* data (ok) or None: the locals after it, and whether the loop breaks.
ReleaseBody_FallbackBlocksPreferred(l, url, ok) ==
    LET rid == url.id
        val == validate_release_is_vinyl_and_us(Catalog[rid])
        seen == [l EXCEPT !.is_vinyl = val.is_vinyl, !.is_us = val.is_us]
        kept == [seen EXCEPT !.release_id = rid, !.match_url = url,
                             !.match_method = "release_url",
                             !.match_reason = val.reason]
    IN  IF ~ok THEN [locals |-> l, brk |-> FALSE]
        ELSE IF val.is_vinyl /\ l.release_id = NoneId
          THEN [locals |-> kept, brk |-> val.is_us]
        ELSE [locals |-> seen, brk |-> FALSE]
ReleaseBody_FailedFetchStops(l, url, ok) ==
    LET rid == url.id
        val == validate_release_is_vinyl_and_us(Catalog[rid])
        seen == [l EXCEPT !.is_vinyl = val.is_vinyl, !.is_us = val.is_us]
        kept == [seen EXCEPT !.release_id = rid, !.match_url = url,
                             !.match_method = "release_url",
                             !.match_reason = val.reason]
    IN  IF ~ok THEN [locals |-> l, brk |-> TRUE]
        ELSE IF val.is_vinyl /\ val.is_us THEN [locals |-> kept, brk |-> TRUE]
        ELSE IF val.is_vinyl
          THEN [locals |-> IF l.release_id = NoneId THEN kept ELSE seen, brk |-> FALSE]
        ELSE [locals |-> seen, brk |-> FALSE]
ReleaseBody(l, url, ok) ==
    LET rid == url.id
        val == validate_release_is_vinyl_and_us(Catalog[rid])
        seen == [l EXCEPT !.is_vinyl = val.is_vinyl, !.is_us = val.is_us]
        kept == [seen EXCEPT !.release_id = rid, !.match_url = url,
                             !.match_method = "release_url",
                             !.match_reason = val.reason]
    IN  IF ~ok THEN [locals |-> l, brk |-> FALSE]
        ELSE IF val.is_vinyl /\ val.is_us THEN [locals |-> kept, brk |-> TRUE]
        ELSE IF val.is_vinyl
          THEN [locals |-> IF l.release_id = NoneId THEN kept ELSE seen, brk |-> FALSE]
        ELSE [locals |-> seen, brk |-> FALSE]

\* Lines 233-251: one iteration of the release loop.
ReleaseStep ==
    /\ rs.pc = "release"
    /\ \E ok \in BOOLEAN :
         LET url == rs.release_candidates[rs.i]
             body == ReleaseBody(rs, url, ok)
         IN  /\ reqs' = Append(reqs, Req("release", url.id, ok))
             /\ rs' = IF body.brk \/ rs.i = Len(rs.release_candidates)
                        THEN EnterMaster(body.locals)
                        ELSE [body.locals EXCEPT !.i = rs.i + 1]
    /\ WithinFailures(reqs')
    /\ UNCHANGED <<img, row, httpVars, pureVars, reconVars>>

\* The body of the master loop (C) for one resolved master.
MasterBody_FallbackReplaced(l, url, result) ==
    LET taken == [l EXCEPT !.release_id = result.id, !.match_url = url,
                           !.match_method = "master_url",
                           !.is_vinyl = TRUE, !.is_us = result.is_us,
                           !.match_reason = result.reason]
    IN  IF result.id = NoneId THEN [locals |-> l, brk |-> FALSE]
        ELSE IF result.is_vinyl /\ result.is_us THEN [locals |-> taken, brk |-> TRUE]
        ELSE IF result.is_vinyl THEN [locals |-> taken, brk |-> FALSE]
        ELSE [locals |-> l, brk |-> FALSE]
MasterBody(l, url, result) ==
    LET taken == [l EXCEPT !.release_id = result.id, !.match_url = url,
                           !.match_method = "master_url",
                           !.is_vinyl = TRUE, !.is_us = result.is_us,
                           !.match_reason = result.reason]
    IN  IF result.id = NoneId THEN [locals |-> l, brk |-> FALSE]
        ELSE IF result.is_vinyl /\ result.is_us THEN [locals |-> taken, brk |-> TRUE]
        ELSE IF result.is_vinyl /\ l.release_id = NoneId
          THEN [locals |-> taken, brk |-> FALSE]
        ELSE [locals |-> l, brk |-> FALSE]

\* Lines 253-277: one iteration of the master loop.
MasterStep ==
    /\ rs.pc = "master"
    /\ \E f \in MasterFailures :
         LET url == rs.master_candidates[rs.i]
             res == discogs_release_from_master(url.id, f)
             body == MasterBody(rs, url, res.result)
         IN  /\ reqs' = reqs \o res.reqs
             /\ rs' = IF body.brk \/ rs.i = Len(rs.master_candidates)
                        THEN EnterSearch(body.locals)
                        ELSE [body.locals EXCEPT !.i = rs.i + 1]
    /\ WithinFailures(reqs')
    /\ UNCHANGED <<img, row, httpVars, pureVars, reconVars>>

\* Lines 279-294: derive the hints and search the catalog; a failed search
\* yields no hits.
SearchStart ==
    /\ rs.pc = "search"
    /\ LET hints == Hints(img.text, img.best_guess)
           asks == Truthy(hints[1]) \/ Truthy(hints[2])
       IN  \E ok \in (IF asks THEN BOOLEAN ELSE {FALSE}) :
           \E results \in (IF ok THEN SearchResponses ELSE {<<>>}) :
             /\ reqs' = IF asks THEN Append(reqs, Req("search", NoneId, ok)) ELSE reqs
             /\ rs' = [rs EXCEPT !.artist_hint = hints[1], !.album_hint = hints[2],
                                 !.search_results = results,
                                 !.pc = IF results = <<>> THEN "final" ELSE "hits",
                                 !.i = IF results = <<>> THEN 0 ELSE 1]
    /\ WithinFailures(reqs')
    /\ UNCHANGED <<img, row, httpVars, pureVars, reconVars>>

\* The body of the hits loop (D) for one hit with an id.
HitBody(l, candidate_id, ok) ==
    LET val == validate_release_is_vinyl_and_us(Catalog[candidate_id])
        taken == [l EXCEPT !.release_id = candidate_id,
                           !.match_url = Url("discogs.com", "release", candidate_id),
                           !.match_method = "search_fallback",
                           !.is_vinyl = TRUE, !.is_us = val.is_us,
                           !.match_reason = val.reason]
    IN  IF ~ok THEN [locals |-> l, brk |-> FALSE]
        ELSE IF val.is_vinyl /\ val.is_us THEN [locals |-> taken, brk |-> TRUE]
        ELSE IF val.is_vinyl /\ l.release_id = NoneId
          THEN [locals |-> taken, brk |-> FALSE]
        ELSE [locals |-> l, brk |-> FALSE]

\* Lines 296-318: one iteration of the hits loop.
HitStep ==
    /\ rs.pc = "hits"
    /\ LET candidate_id == rs.search_results[rs.i]
       IN  \E ok \in (IF candidate_id = NoneId THEN {FALSE} ELSE BOOLEAN) :
             LET body == IF candidate_id = NoneId
                           THEN [locals |-> rs, brk |-> FALSE]
                           ELSE HitBody(rs, candidate_id, ok)
             IN  /\ reqs' = IF candidate_id = NoneId THEN reqs
                            ELSE Append(reqs, Req("release", candidate_id, ok))
                 /\ rs' = IF body.brk \/ rs.i = Len(rs.search_results)
                            THEN [body.locals EXCEPT !.pc = "final", !.i = 0]
                            ELSE [body.locals EXCEPT !.i = rs.i + 1]
    /\ WithinFailures(reqs')
    /\ UNCHANGED <<img, row, httpVars, pureVars, reconVars>>

RowConfidence_WhateverStatus(l, status) ==
    IF ~l.has_discogs /\ l.other_candidates /= <<>>
      THEN "very_low"
      ELSE confidence_bucket(IF Truthy(l.match_method) THEN l.match_method ELSE "unknown",
                             l.has_discogs, l.is_vinyl, l.is_us)
RowConfidence_AnyOtherCandidate(l, status) ==
    IF status = "review_needed" /\ l.other_candidates /= <<>>
      THEN "very_low"
      ELSE confidence_bucket(IF Truthy(l.match_method) THEN l.match_method ELSE "unknown",
                             l.has_discogs, l.is_vinyl, l.is_us)
\* Lines 336-338: the confidence written to the row.
RowConfidence(l, status) ==
    IF status = "review_needed" /\ ~l.has_discogs /\ l.other_candidates /= <<>>
      THEN "very_low"
      ELSE confidence_bucket(IF Truthy(l.match_method) THEN l.match_method ELSE "unknown",
                             l.has_discogs, l.is_vinyl, l.is_us)

\* Lines 320-359: status, confidence and the row. The final choice is fetched
\* and validated again only when it carries no reason.
Finalize ==
    /\ rs.pc = "final"
    /\ \E ok \in BOOLEAN :
         LET refetch == rs.release_id /= NoneId /\ rs.match_reason = <<>>
             again == Req("release", rs.release_id, ok)
             val == validate_release_is_vinyl_and_us(Catalog[rs.release_id])
             l == IF refetch /\ ok
                    THEN [rs EXCEPT !.is_vinyl = val.is_vinyl, !.is_us = val.is_us,
                                    !.match_reason = val.reason]
                    ELSE rs
             status == IF l.release_id /= NoneId /\ l.is_vinyl
                         THEN "matched" ELSE "review_needed"
         IN  /\ reqs' = IF refetch THEN Append(reqs, again) ELSE reqs
             /\ rs' = [l EXCEPT !.pc = "done"]
             /\ row' = [status |-> status,
                        confidence_level |-> RowConfidence(l, status),
                        discogs_release_id |-> l.release_id,
                        discogs_url |-> l.match_url,
                        candidate_source |->
                            IF l.has_discogs THEN "discogs"
                            ELSE IF l.other_candidates /= <<>> THEN "other" ELSE "none",
                        has_discogs_candidate |-> l.has_discogs,
                        artist_hint |-> l.artist_hint, album_hint |-> l.album_hint,
                        error_message |-> PyNone,
                        match_reason |-> IF l.release_id /= NoneId THEN l.match_reason
                                         ELSE <<>>]
    /\ UNCHANGED <<img, httpVars, pureVars, reconVars>>

\* The responses that may follow the first one of the batch: with or without an
\* error, either empty or with a release page and text.
Followers ==
    {second \in Images :
        /\ second.last
        /\ \/ second.pages = <<>> /\ second.text = <<>>
           \/ /\ second.pages = <<Url("discogs.com", "release", 1)>>
              /\ second.text = <<" ", "Artist X">> /\ second.best_guess = "Album W"}

\* `for idx, resp in enumerate(resp_dicts, 1):` takes the next response, after
\* the `continue` of line 207 or after the row of lines 340-359; the locals of
\* lines 213-219 start afresh.
NextImage ==
    /\ rs.pc = "done"
    /\ ~img.last
    /\ img' \in Followers
    /\ rs' = InitialLocals
    /\ reqs' = <<>>
    /\ row' = NoRow
    /\ UNCHANGED <<httpVars, pureVars, reconVars>>

Next ==
    \/ NextImage
    \/ VisionError
    \/ HarvestCandidates
    \/ ReleaseStep
    \/ MasterStep
    \/ SearchStart
    \/ HitStep
    \/ Finalize

Spec == Init /\ [][Next]_vars

-----------------------------------------------------------------------------
(***************************************************************************)
(* src/discogs_api.py: the collection client                               *)
(* src/workflows.py: add_to_collection_and_organize,                       *)
(*                   organize_folders_workflow, update_conditions_workflow *)
(***************************************************************************)

\* config.DISCOGS_FOLDER_ID, the folder releases are added to (its default),
\* and the folder the workflows look an instance up in (`folder_id=1`).
DISCOGS_FOLDER_ID == 1
LookupFolder == 1
\* The remote's "All" folder, whose listing holds every instance.
AllFolder == 0

\* config.DISCOGS_MEDIA_CONDITION and config.DISCOGS_SLEEVE_CONDITION
DISCOGS_MEDIA_CONDITION == "Very Good (VG)"
DISCOGS_SLEEVE_CONDITION == "Good Plus (G+)"

\* The releases the workflows are asked to add and file, and their owners.
Rids == {1, 2}
Owners == {"Dad", "Mom", "Uncategorized"}

\* The remote's folders when a run starts: the two built-in ones and Dad's.
InitialFolders == ("All" :> AllFolder) @@ ("Uncategorized" :> 1) @@ ("Dad" :> 2)

\* One instance of the remote collection.
Instance(release_id, folder_id, media, sleeve) ==
    [release_id |-> release_id, folder_id |-> folder_id,
     media_condition |-> media, sleeve_condition |-> sleeve]

\* The (media, sleeve) conditions an instance starts with.
ConditionPairs ==
    { <<PyNone, PyNone>>, <<PyNone, "Good (G)">>,
      <<"Mint (M)", " ">>, <<"Mint (M)", "Good (G)">> }

\* The collections a run may start from: at most the instance 1 of release 1
\* (its instance id equals its release id) and the instance 7 of either
\* release. The instance 1 is in Uncategorized or in Dad's folder, with any
\* conditions; the instance 7 is in Uncategorized with any conditions or in
\* Dad's folder with none; when both are there, both are in Uncategorized
\* with no condition.
InitialCollections ==
    LET one == {(1 :> Instance(1, f, c[1], c[2])) : f \in {1, 2}, c \in ConditionPairs}
        seven == {(7 :> Instance(r, 1, c[1], c[2])) : r \in Rids, c \in ConditionPairs}
                   \cup {(7 :> Instance(r, 2, PyNone, PyNone)) : r \in Rids}
        both == {(1 :> Instance(1, 1, PyNone, PyNone))
                    @@ (7 :> Instance(r, 1, PyNone, PyNone)) : r \in Rids}
    IN  {<<>>} \cup one \cup seven \cup both

\* release_to_owner: a dict, iterated in the order its keys were inserted
\* (KeyOrders: the orders a dict of these keys can have).
ReleaseToOwner == UNION {[S -> Owners] : S \in SUBSET Rids}
KeyOrders(S) ==
    {q \in [1..Cardinality(S) -> S] :
        \A a, b \in DOMAIN q : a /= b => q[a] /= q[b]}

RECURSIVE SetToSeq(_)
SetToSeq(S) ==
    IF S = {} THEN <<>>
    ELSE LET m == CHOOSE x \in S : \A y \in S : x <= y
         IN  <<m>> \o SetToSeq(S \ {m})

MaxOf(S) == CHOOSE x \in S : \A y \in S : y <= x

\* The id the remote gives the next instance, and the next folder.
NewInstanceId(c) == MaxOf(DOMAIN c \cup {7}) + 1
NewFolderId(fs) == MaxOf({fs[n] : n \in DOMAIN fs}) + 1

\* The instances of release rid the remote holds.
InstancesOf(c, rid) == {i \in DOMAIN c : c[i].release_id = rid}

\* The items of the listing GET .../collection/folders/{folder_id}/releases.
FolderListing(c, folder_id) ==
    {i \in DOMAIN c : folder_id = AllFolder \/ c[i].folder_id = folder_id}

\* discogs_get_instance_for_release(username, release_id, folder_id): the
\* (instance_id, actual_folder_id) pairs it may return, one per item of the
\* listing that is of the release (the first in listing order is returned);
\* empty when it returns (None, None).
discogs_get_instance_for_release_AllFolders(c, release_id, folder_id) ==
    {<<i, folder_id>> : i \in InstancesOf(c, release_id)}
discogs_get_instance_for_release(c, release_id, folder_id) ==
    {<<i, IF c[i].folder_id /= NoneId THEN c[i].folder_id ELSE folder_id>> :
        i \in FolderListing(c, folder_id) \cap InstancesOf(c, release_id)}

\* discogs_move_instance sends its POST unless `source_folder_id == target_folder_id`.
MoveSendsRequest(source_folder_id, target_folder_id) ==
    source_folder_id /= target_folder_id

\* One mutating request, as logged; `held` is the number of instances of the
\* release the remote held when an add was sent, `was` the folder the instance
\* was in when a move was sent, `out` the remote's answer.
Sent(op, release_id, instance_id, folder_id, target, held, was, out) ==
    [op |-> op, release_id |-> release_id, instance_id |-> instance_id,
     folder_id |-> folder_id, target |-> target, held |-> held, was |-> was,
     out |-> out]

\* The most requests of one run the remote fails.
MaxFaults == 1

\* The remote fails n more requests, within what it may fail in one run.
Fail(n) == faults + n <= MaxFaults /\ faults' = faults + n
Cost(ok) == IF ok THEN 0 ELSE 1

\* The remote's answer to a mutating request, retries included: done and
\* answered; refused with a 409; failed otherwise; done, but the answer lost.
PostOutcomes == {"ok", "conflict", "error", "lost"}
Applied(out) == out \in {"ok", "lost"}
\* `"409" in error_msg or "already" in error_msg.lower()`
IsConflict_Never(out) == FALSE
IsConflict(out) == out = "conflict"

\* The remote after POST .../folders/{folder_id}/releases/{release_id}.
RemoteAdd(c, release_id, folder_id) ==
    c @@ (NewInstanceId(c) :> Instance(release_id, folder_id, PyNone, PyNone))

\* http_post_with_retry(..., tries=4): the attempts one POST may take.
PostTries == 4

\* The remote after n add requests for the release were applied.
RECURSIVE RemoteAddTimes(_, _, _, _)
RemoteAddTimes(c, release_id, folder_id, n) ==
    IF n = 0 THEN c
    ELSE RemoteAddTimes(RemoteAdd(c, release_id, folder_id), release_id, folder_id, n - 1)

\* The attempts of one add POST that may be applied with the answer lost
\* before the attempt that decides the outcome: http_post_with_retry sends
\* the request again after any exception.
LostAttempts == 0..(PostTries - 1)

\* The remote after the move POST: the instance changes folder, nothing else.
RemoteMove_DeleteAndAdd(c, instance_id, target_folder_id) ==
    [i \in (DOMAIN c \ {instance_id}) \cup {NewInstanceId(c)} |->
        IF i \in DOMAIN c THEN c[i]
        ELSE [c[instance_id] EXCEPT !.folder_id = target_folder_id]]
RemoteMove(c, instance_id, target_folder_id) ==
    [c EXCEPT ![instance_id].folder_id = target_folder_id]

\* The remote after POST .../instances/{instance_id}/fields/{field_id}.
RemoteSetField(c, instance_id, field, value) ==
    IF field = "media_condition"
      THEN [c EXCEPT ![instance_id].media_condition = value]
      ELSE [c EXCEPT ![instance_id].sleeve_condition = value]

\* `not media or (isinstance(media, str) and media.strip() == "")`
NeedsCondition(v) == ~Truthy(v) \/ Strip(v) = ""

\* One entry of the list discogs_list_all_collection_instances returns.
Listed(c, i) ==
    [release_id |-> c[i].release_id, instance_id |-> i,
     folder_id |-> c[i].folder_id,
     media_condition |-> c[i].media_condition,
     sleeve_condition |-> c[i].sleeve_condition]

\* `if instance_id == release_id: continue`, in the listing and in the workflow.
ListingSkipsAlias_Never(release_id, instance_id) == FALSE
ListingSkipsAlias(release_id, instance_id) == instance_id = release_id
WorkflowSkipsAlias(release_id, instance_id) == instance_id = release_id

\* discogs_list_all_collection_instances: folder by folder (folder_ids in
\* order), each listing in the order of the instance ids.
RECURSIVE discogs_list_all_collection_instances(_, _)
discogs_list_all_collection_instances(c, folder_ids) ==
    IF folder_ids = <<>> THEN <<>>
    ELSE LET items == SetToSeq(FolderListing(c, Head(folder_ids)))
             kept == SelectSeq(items,
                        LAMBDA i : ~ListingSkipsAlias(c[i].release_id, i))
         IN  [k \in 1..Len(kept) |-> Listed(c, kept[k])]
               \o discogs_list_all_collection_instances(c, Tail(folder_ids))

FolderIds(fs) == SetToSeq({fs[n] : n \in DOMAIN fs})

\* The workflows that can be run: add_to_collection_and_organize followed by
\* update_conditions_workflow (as main_workflow runs them), or
\* organize_folders_workflow alone.
Modes == {"full", "organize"}

InitRecon ==
    /\ coll \in InitialCollections
    /\ folders = InitialFolders
    /\ sent = <<>>
    /\ faults = 0
    /\ \E mode \in Modes, r2o \in ReleaseToOwner :
       \E keys \in KeyOrders(DOMAIN r2o) :
         wf = [mode |-> mode,
               pc |-> IF mode = "full" THEN "add" ELSE "folders",
               release_to_owner |-> r2o,
               to_add |-> keys, i |-> 1,
               added |-> 0, add_failed |-> {},
               unique_owners |-> {r2o[r] : r \in DOMAIN r2o},
               owner_folders |-> <<>>,
               names_cache |-> <<>>,
               moved_count |-> 0, found_in_uncategorized |-> 0, move_failed |-> {},
               instances |-> <<>>, updated_count |-> 0, update_failed |-> {}]
    /\ h = Idle /\ p = Idle /\ img = Idle /\ rs = Idle /\ reqs = Idle /\ row = Idle

\* Where control goes when a loop ends.
AfterAdd(w) == [w EXCEPT !.pc = "folders", !.i = 1]
AfterFolders(w) == [w EXCEPT !.pc = "move", !.i = 1]
AfterMove(w) ==
    [w EXCEPT !.pc = IF w.mode = "full" THEN "conditions" ELSE "done", !.i = 1]

\* The add loop has nothing (more) to add.
AddLoopEnds ==
    /\ wf.pc = "add"
    /\ wf.i > Len(wf.to_add)
    /\ wf' = AfterAdd(wf)
    /\ UNCHANGED <<coll, folders, sent, faults, httpVars, pureVars, resVars>>

\* How a lookup GET ends: answered; failed; failed with a text that holds
\* "409" or "already" (a GET answered 409).
LookupOutcomes == {"ok", "error", "conflict"}

\* workflows.py 376-398: one iteration of the add loop. The lookup may fail;
\* an instance found in the lookup folder means no add; otherwise the add is
\* sent and, when it is answered, the instance looked up again. Every attempt
\* of the add POST whose answer is lost has added an instance. The except
\* covers the lookups and the add alike: a failure whose text says conflict
\* counts the release.
AddStep ==
    /\ wf.pc = "add"
    /\ wf.i <= Len(wf.to_add)
    /\ LET rid == wf.to_add[wf.i]
           next == [wf EXCEPT !.i = wf.i + 1]
           counted == [next EXCEPT !.added = wf.added + 1]
           failed == [next EXCEPT !.add_failed = wf.add_failed \cup {rid}]
           found == discogs_get_instance_for_release(coll, rid, LookupFolder)
           request(out) == Sent("add", rid, NoneId, DISCOGS_FOLDER_ID, NoneId,
                                Cardinality(InstancesOf(coll, rid)), NoneId, out)
       IN  \E look \in LookupOutcomes :
             IF look /= "ok"
               THEN /\ wf' = IF IsConflict(look) THEN counted ELSE failed
                    /\ Fail(1)
                    /\ UNCHANGED <<coll, sent>>
             ELSE IF found /= {}
               THEN wf' = counted /\ UNCHANGED <<coll, sent, faults>>
             ELSE \E out \in PostOutcomes, again \in LookupOutcomes,
                     lost \in LostAttempts :
                    /\ (out /= "ok") => again = "ok"
                    /\ Fail(Cost(out = "ok") + Cost(again = "ok") + lost)
                    /\ sent' = Append(sent, request(out))
                    /\ coll' = RemoteAddTimes(coll, rid, DISCOGS_FOLDER_ID,
                                              lost + (IF Applied(out) THEN 1 ELSE 0))
                    /\ wf' = IF out = "ok"
                               THEN (IF again = "ok" \/ IsConflict(again)
                                       THEN counted ELSE failed)
                             ELSE IF IsConflict(out) THEN counted
                             ELSE failed
    /\ UNCHANGED <<folders, httpVars, pureVars, resVars>>

\* The folder loop has no owner left.
FolderLoopEnds ==
    /\ wf.pc = "folders"
    /\ wf.unique_owners = {}
    /\ wf' = AfterFolders(wf)
    /\ UNCHANGED <<coll, folders, sent, faults, httpVars, pureVars, resVars>>

\* workflows.py 409-415 with discogs_get_or_create_folder: one owner of the
\* folder loop. The memoized listing is fetched when there is none (a failure
\* of that GET is not caught: the run ends); a name in the listing is no
\* create; a create that is answered clears the memoized listing; a conflict
\* is resolved by name in the memoized listing.
FolderStep ==
    /\ wf.pc = "folders"
    /\ \E owner \in wf.unique_owners, listed \in BOOLEAN :
         LET names == IF wf.names_cache = <<>> THEN folders ELSE wf.names_cache[1]
             rest == [wf EXCEPT !.unique_owners = wf.unique_owners \ {owner},
                                !.names_cache = <<names>>]
             got(w, id) == [w EXCEPT !.owner_folders = (owner :> id) @@ w.owner_folders]
             request(out) == Sent("create_folder", NoneId, NoneId, NoneId, NoneId,
                                  NoneId, NoneId, out)
         IN  IF wf.names_cache = <<>> /\ ~listed
               THEN /\ wf' = [wf EXCEPT !.pc = "crashed"]
                    /\ Fail(1)
                    /\ UNCHANGED <<folders, sent>>
             ELSE IF owner \in DOMAIN names
               THEN /\ wf' = got(rest, names[owner])
                    /\ (wf.names_cache = <<>>) <=> listed
                    /\ UNCHANGED <<folders, sent, faults>>
             ELSE \E out \in PostOutcomes :
                    /\ (wf.names_cache = <<>>) <=> listed
                    /\ (out = "conflict") => owner \in DOMAIN folders
                    /\ Applied(out) => owner \notin DOMAIN folders
                    /\ Fail(Cost(out \in {"ok", "conflict"}))
                    /\ sent' = Append(sent, request(out))
                    /\ folders' = IF Applied(out)
                                    THEN (owner :> NewFolderId(folders)) @@ folders
                                    ELSE folders
                    /\ wf' = IF out = "ok"
                               THEN got([rest EXCEPT !.names_cache = <<>>],
                                        NewFolderId(folders))
                             ELSE IF IsConflict(out) /\ owner \in DOMAIN names
                               THEN got(rest, names[owner])
                             ELSE rest
    /\ UNCHANGED <<coll, httpVars, pureVars, resVars>>

\* discogs_get_or_create_folder(username, folder_name) with discogs_create_folder
\* (discogs_api.py 226-266): `cache` is the memoized name listing (<<>> when
\* there is none), `remote` the remote's folders, `listed` whether the listing
\* GET is answered when it is sent, `out` the outcome of the create request when
\* one is sent. A failed listing is not caught (raised); a conflict is resolved
\* by name in the memoized listing; the memoized listing is cleared when the
\* create returned an id.
discogs_get_or_create_folder_KeepsCache(folder_name, cache, remote, listed, out) ==
    LET names == IF cache = <<>> THEN remote ELSE cache[1]
        fresh == NewFolderId(remote)
        id == IF out = "ok" THEN fresh
              ELSE IF IsConflict(out) /\ folder_name \in DOMAIN names
                THEN names[folder_name]
              ELSE NoneId
    IN  IF cache = <<>> /\ ~listed
          THEN [raised |-> TRUE, id |-> NoneId, create |-> FALSE, names |-> <<>>,
                cache |-> cache, remote |-> remote]
        ELSE IF folder_name \in DOMAIN names
          THEN [raised |-> FALSE, id |-> names[folder_name], create |-> FALSE,
                names |-> names, cache |-> <<names>>, remote |-> remote]
        ELSE [raised |-> FALSE, id |-> id, create |-> TRUE, names |-> names,
              cache |-> <<names>>,
              remote |-> IF Applied(out) THEN (folder_name :> fresh) @@ remote
                         ELSE remote]
discogs_get_or_create_folder(folder_name, cache, remote, listed, out) ==
    LET names == IF cache = <<>> THEN remote ELSE cache[1]
        fresh == NewFolderId(remote)
        id == IF out = "ok" THEN fresh
              ELSE IF IsConflict(out) /\ folder_name \in DOMAIN names
                THEN names[folder_name]
              ELSE NoneId
    IN  IF cache = <<>> /\ ~listed
          THEN [raised |-> TRUE, id |-> NoneId, create |-> FALSE, names |-> <<>>,
                cache |-> cache, remote |-> remote]
        ELSE IF folder_name \in DOMAIN names
          THEN [raised |-> FALSE, id |-> names[folder_name], create |-> FALSE,
                names |-> names, cache |-> <<names>>, remote |-> remote]
        ELSE [raised |-> FALSE, id |-> id, create |-> TRUE, names |-> names,
              cache |-> IF id /= NoneId THEN <<>> ELSE <<names>>,
              remote |-> IF Applied(out) THEN (folder_name :> fresh) @@ remote
                         ELSE remote]

\* A run that calls discogs_get_or_create_folder several times, with names
\* that may repeat.
MaxCalls == 3
FolderNames == {"Dad", "Mom", "Kid"}

InitFolders ==
    /\ folders = InitialFolders
    /\ sent = <<>>
    /\ faults = 0
    /\ \E memo \in {<<>>, <<InitialFolders>>} :
         wf = [pc |-> "calls", names_cache |-> memo, calls |-> <<>>]
    /\ coll = Idle
    /\ h = Idle /\ p = Idle /\ img = Idle /\ rs = Idle /\ reqs = Idle /\ row = Idle

\* One call. The remote refuses a name it holds with a 409 and creates no
\* second folder of a name.
FolderCall ==
    /\ wf.pc = "calls"
    /\ Len(wf.calls) < MaxCalls
    /\ \E folder_name \in FolderNames, listed \in BOOLEAN, out \in PostOutcomes :
         LET r == discogs_get_or_create_folder(folder_name, wf.names_cache, folders,
                                               listed, out)
         IN  /\ (wf.names_cache /= <<>>) => listed
             /\ IF r.create
                  THEN /\ (out = "conflict") => folder_name \in DOMAIN folders
                       /\ (out \in {"ok", "lost"}) => folder_name \notin DOMAIN folders
                       /\ Fail(Cost(out \in {"ok", "conflict"}))
                       /\ sent' = Append(sent, Sent("create_folder", NoneId, NoneId, NoneId,
                                                    folder_name, NoneId, NoneId, out))
                  ELSE /\ out = "ok"
                       /\ Fail(Cost(listed))
                       /\ sent' = sent
             /\ folders' = r.remote
             /\ wf' = IF r.raised THEN [wf EXCEPT !.pc = "crashed"]
                      ELSE [wf EXCEPT !.names_cache = r.cache,
                                      !.calls = Append(@, [name |-> folder_name,
                                                           id |-> r.id,
                                                           create |-> r.create,
                                                           out |-> out,
                                                           names |-> r.names])]
    /\ UNCHANGED <<coll, httpVars, pureVars, resVars>>

NextFolders == FolderCall

SpecFolders == InitFolders /\ [][NextFolders]_vars

\* The move loop has no release left.
MoveLoopEnds ==
    /\ wf.pc = "move"
    /\ wf.i > Len(wf.to_add)
    /\ wf' = AfterMove(wf)
    /\ UNCHANGED <<coll, folders, sent, faults, httpVars, pureVars, resVars>>

\* workflows.py 421-442 (and 138-164): one iteration of the move loop. A
\* release whose owner has no folder is skipped; the lookup may fail; no
\* instance in the lookup folder is a skip; an instance whose folder is not the
\* owner's is moved by discogs_move_instance.
MoveStep ==
    /\ wf.pc = "move"
    /\ wf.i <= Len(wf.to_add)
    /\ LET rid == wf.to_add[wf.i]
           owner == wf.release_to_owner[rid]
           next == [wf EXCEPT !.i = wf.i + 1]
           failed == [next EXCEPT !.move_failed = wf.move_failed \cup {rid}]
           found == discogs_get_instance_for_release(coll, rid, LookupFolder)
       IN  IF owner \notin DOMAIN wf.owner_folders
             THEN wf' = next /\ UNCHANGED <<coll, sent, faults>>
           ELSE \E look \in BOOLEAN :
             IF ~look
               THEN wf' = failed /\ Fail(1) /\ UNCHANGED <<coll, sent>>
             ELSE IF found = {}
               THEN wf' = next /\ UNCHANGED <<coll, sent, faults>>
             ELSE \E hit \in found :
                    LET instance_id == hit[1]
                        current_folder_id == hit[2]
                        target_folder_id == wf.owner_folders[owner]
                        seen == [next EXCEPT !.found_in_uncategorized = @ + 1]
                        moved == [seen EXCEPT !.moved_count = @ + 1]
                        request(out) == Sent("move", rid, instance_id,
                                             current_folder_id, target_folder_id,
                                             NoneId, coll[instance_id].folder_id, out)
                    IN  IF current_folder_id = target_folder_id
                          THEN /\ wf' = IF wf.mode = "organize" THEN moved ELSE seen
                               /\ UNCHANGED <<coll, sent, faults>>
                        ELSE IF ~MoveSendsRequest(current_folder_id, target_folder_id)
                          THEN wf' = moved /\ UNCHANGED <<coll, sent, faults>>
                        ELSE \E out \in PostOutcomes :
                               /\ Fail(Cost(out = "ok"))
                               /\ sent' = Append(sent, request(out))
                               /\ coll' = IF Applied(out)
                                            THEN RemoteMove(coll, instance_id,
                                                            target_folder_id)
                                            ELSE coll
                               /\ wf' = IF out = "ok" \/ IsConflict(out)
                                          THEN moved
                                          ELSE [seen EXCEPT !.move_failed =
                                                  wf.move_failed \cup {rid}]
    /\ UNCHANGED <<folders, httpVars, pureVars, resVars>>

\* workflows.py 38-44: list the collection. A failed GET is not caught (the
\* run ends); without the two field ids, or without instances, the workflow
\* returns.
ListInstances ==
    /\ wf.pc = "conditions"
    /\ \E listed \in BOOLEAN, fields \in BOOLEAN :
         LET instances == IF fields
                            THEN discogs_list_all_collection_instances(
                                     coll, FolderIds(folders))
                            ELSE <<>>
         IN  /\ Fail(Cost(listed))
             /\ wf' = IF ~listed THEN [wf EXCEPT !.pc = "crashed"]
                       ELSE [wf EXCEPT !.instances = instances, !.i = 1,
                                !.pc = IF instances = <<>> THEN "done" ELSE "update"]
    /\ UNCHANGED <<coll, folders, sent, httpVars, pureVars, resVars>>

\* The update loop has no instance left.
UpdateLoopEnds ==
    /\ wf.pc = "update"
    /\ wf.i > Len(wf.instances)
    /\ wf' = [wf EXCEPT !.pc = "done"]
    /\ UNCHANGED <<coll, folders, sent, faults, httpVars, pureVars, resVars>>

\* workflows.py 47-80 with discogs_update_instance_condition: one instance of
\* the update loop. The media field is posted first, then the sleeve field;
\* the first failure ends the instance; a failure whose text holds "404" is
\* passed over in silence (`says404`), any other is reported. A POST ends as
\* http_post_with_retry ends (PostOutcomes): every outcome but "ok" raises,
\* and the remote holds the field of every POST it applied, also when the
\* answer was lost on the last attempt.
UpdateStep ==
    /\ wf.pc = "update"
    /\ wf.i <= Len(wf.instances)
    /\ LET instance == wf.instances[wf.i]
           next == [wf EXCEPT !.i = wf.i + 1]
           updated == [next EXCEPT !.updated_count = @ + 1]
           failed == [next EXCEPT !.update_failed =
                        @ \cup {instance.instance_id}]
           needs_media == NeedsCondition(instance.media_condition)
           needs_sleeve == NeedsCondition(instance.sleeve_condition)
           post(field, ok) == Sent("set_field", instance.release_id,
                                   instance.instance_id, instance.folder_id, field,
                                   NoneId, NoneId, IF ok THEN "ok" ELSE "error")
           mediaReq(ok) == IF needs_media THEN <<post("media_condition", ok)>> ELSE <<>>
           sleeveReq(ok) == IF needs_sleeve THEN <<post("sleeve_condition", ok)>> ELSE <<>>
       IN  IF ~(needs_media \/ needs_sleeve)
             THEN wf' = next /\ UNCHANGED <<coll, sent, faults>>
           ELSE IF instance.instance_id = NoneId \/ instance.release_id = NoneId
                     \/ instance.folder_id = NoneId
             THEN wf' = next /\ UNCHANGED <<coll, sent, faults>>
           ELSE IF WorkflowSkipsAlias(instance.release_id, instance.instance_id)
             THEN wf' = next /\ UNCHANGED <<coll, sent, faults>>
           ELSE \E media \in (IF needs_media THEN PostOutcomes ELSE {"ok"}),
                   sleeve \in (IF needs_sleeve THEN PostOutcomes ELSE {"ok"}),
                   says404 \in BOOLEAN :
                  LET media_ok == media = "ok"
                      sleeve_ok == sleeve = "ok"
                      c1 == IF needs_media /\ Applied(media)
                              THEN RemoteSetField(coll, instance.instance_id,
                                       "media_condition", DISCOGS_MEDIA_CONDITION)
                              ELSE coll
                      c2 == IF needs_sleeve /\ Applied(sleeve)
                              THEN RemoteSetField(c1, instance.instance_id,
                                       "sleeve_condition", DISCOGS_SLEEVE_CONDITION)
                              ELSE c1
                  IN  IF ~media_ok
                        THEN /\ sleeve_ok
                             /\ Fail(1)
                             /\ sent' = sent \o mediaReq(FALSE)
                             /\ coll' = c1
                             /\ wf' = IF says404 THEN next ELSE failed
                        ELSE /\ (sleeve_ok => ~says404)
                             /\ Fail(Cost(sleeve_ok))
                             /\ sent' = sent \o mediaReq(TRUE) \o sleeveReq(sleeve_ok)
                             /\ coll' = c2
                             /\ wf' = IF sleeve_ok THEN updated
                                      ELSE IF says404 THEN next ELSE failed
    /\ UNCHANGED <<folders, httpVars, pureVars, resVars>>

NextRecon ==
    \/ AddStep
    \/ AddLoopEnds
    \/ FolderStep
    \/ FolderLoopEnds
    \/ MoveStep
    \/ MoveLoopEnds
    \/ ListInstances
    \/ UpdateLoopEnds
    \/ UpdateStep

SpecRecon == InitRecon /\ [][NextRecon]_vars

-----------------------------------------------------------------------------
(***************************************************************************)
(* Properties of the resolver (Spec)                                       *)
(***************************************************************************)

\* The resolver has emitted the row of an image whose label result has no error.
Resolved == rs.pc = "done" /\ img.error = ""

\* What the catalog holds for release id, validated.
TargetFormat(id) == validate_release_is_vinyl_and_us(Catalog[id]).is_vinyl
Preferred(id) ==
    validate_release_is_vinyl_and_us(Catalog[id]).is_vinyl
      /\ validate_release_is_vinyl_and_us(Catalog[id]).is_us

\* The image's candidate URLs, read off the label result itself.
HasSameService == \E i \in 1..Len(img.pages) : IsDiscogsUrl(img.pages[i])
HasOtherService == \E i \in 1..Len(img.pages) : ~IsDiscogsUrl(img.pages[i])

\* The k-th request of the image fetched a target-format, preferred-region release.
FetchedPreferred(k) ==
    k <= Len(reqs) /\ reqs[k].op = "release" /\ reqs[k].ok /\ Preferred(reqs[k].id)

\* C1: the first release-type candidate, in original order, whose fetched
\* release is target-format and preferred-region becomes the resolved release
\* with method release_url, also when an earlier candidate was kept as the
\* fallback; its fetch is the last catalog request of the image (no master
\* resolution, no search, no further fetch).
C1_FirstPreferredReleaseWins ==
    Resolved =>
      \A k \in 1..Len(rs.release_candidates) :
        (FetchedPreferred(k) /\ \A j \in 1..(k - 1) : ~FetchedPreferred(j))
          => /\ reqs[k].id = rs.release_candidates[k].id
             /\ rs.release_id = rs.release_candidates[k].id
             /\ rs.match_method = "release_url"
             /\ row.discogs_release_id = rs.release_candidates[k].id
             /\ row.discogs_url = rs.release_candidates[k]
             /\ Len(reqs) = k

\* C1's case: [A(wrong region, target format), B(preferred region, target
\* format)], both fetched, B resolved.
C1_Witness ==
    /\ Resolved
    /\ Len(rs.release_candidates) = 2
    /\ rs.release_candidates[1].id = 2
    /\ rs.release_candidates[2].id = 5
    /\ Len(reqs) = 2 /\ reqs[1].ok /\ reqs[2].ok
    /\ rs.release_id = 5
    /\ rs.match_method = "release_url"

\* C2: the final status is "matched" if and only if a release id was resolved
\* and the resolved release is target-format.
C2_MatchedIffTargetFormat ==
    Resolved =>
      (row.status = "matched"
         <=> (row.discogs_release_id /= NoneId /\ TargetFormat(row.discogs_release_id)))

\* C6 as claimed: without a resolution method the release id is null and the
\* confidence is "unknown".
C6_NoMethodUnknown ==
    (Resolved /\ rs.match_method = PyNone)
      => (row.discogs_release_id = NoneId /\ row.confidence_level = "unknown")

\* C6, amended: without a resolution method the release id is null, and the
\* confidence is "unknown" unless the image has no same-service candidate URL
\* and at least one non-service candidate URL, where it is "very_low".
C6_NoMethodUnknownOrVeryLow ==
    (Resolved /\ rs.match_method = PyNone)
      => /\ row.discogs_release_id = NoneId
         /\ row.status = "review_needed"
         /\ row.confidence_level =
              IF ~HasSameService /\ HasOtherService THEN "very_low" ELSE "unknown"

\* C6's cases: an unresolved image with both kinds of candidate URLs.
C6_Witness ==
    /\ Resolved
    /\ rs.match_method = PyNone
    /\ HasSameService /\ HasOtherService
    /\ row.confidence_level = "unknown"

\* The search of the image was issued, and the first hit's release was fetched
\* and is target-format and preferred-region.
SearchIssued == \E k \in 1..Len(reqs) : reqs[k].op = "search"
FirstHitPreferred ==
    \E k \in 1..(Len(reqs) - 1) :
       /\ reqs[k].op = "search" /\ reqs[k].ok
       /\ rs.search_results /= <<>>
       /\ rs.search_results[1] /= NoneId
       /\ Preferred(rs.search_results[1])
       /\ reqs[k + 1].op = "release" /\ reqs[k + 1].ok

\* C8: an image with no same-service candidate URL and at least two non-empty
\* OCR lines is resolved through the text-search pass; when the first hit is
\* target-format and preferred-region the row is matched, by search_fallback,
\* with confidence "very_low"; "low" goes to a text-search match only when it
\* is target-format, preferred-region and the image had a same-service URL.
C8_TextSearchVeryLow ==
    /\ (Resolved /\ ~HasSameService /\ Len(Parts(img.text)) >= 2)
         => /\ SearchIssued
            /\ rs.match_method \in {PyNone, "search_fallback"}
            /\ FirstHitPreferred
                 => /\ row.status = "matched"
                    /\ rs.match_method = "search_fallback"
                    /\ row.confidence_level = "very_low"
    /\ (Resolved /\ rs.match_method = "search_fallback" /\ row.confidence_level = "low")
         => /\ TargetFormat(row.discogs_release_id)
            /\ Preferred(row.discogs_release_id)
            /\ HasSameService

-----------------------------------------------------------------------------
(***************************************************************************)
(* Properties of the pure functions (SpecPure)                             *)
(***************************************************************************)

ConfidenceApplied == p.done /\ p.in.fn = "confidence_bucket"

\* C7 as claimed: confidence_bucket returns "unknown" whenever is_vinyl is
\* false, for every method.
C7_NotVinylUnknown ==
    (ConfidenceApplied /\ ~p.in.is_vinyl) => p.out = <<"unknown">>

\* What the code does when is_vinyl is false: "unknown" for every method but
\* search_fallback, and "very_low" for search_fallback.
C7_NotVinylUnknownButSearch ==
    (ConfidenceApplied /\ ~p.in.is_vinyl)
      => p.out = <<IF p.in.method = "search_fallback" THEN "very_low" ELSE "unknown">>

\* What the resolver has retained for the image.
Match(l) ==
    <<l.release_id, l.match_url, l.match_method, l.is_vinyl, l.is_us, l.match_reason>>

\* The step has issued catalog requests, and every one of them failed.
AllNewFailed ==
    /\ Len(reqs') > Len(reqs)
    /\ \A k \in (Len(reqs) + 1)..Len(reqs') : ~reqs'[k].ok

\* The loop of pass `pc` over `list` goes on to its next candidate, or, after
\* its last one, hands over to one of the passes `after`.
GoesOn(pc, list, after) ==
    rs.pc = pc =>
      IF rs.i < Len(list) THEN rs'.pc = pc /\ rs'.i = rs.i + 1
      ELSE rs'.pc \in after

\* C14: whatever catalog requests fail for an image, its resolution has a next
\* step after a failed request as long as its row is not emitted (nothing is
\* raised), the row of an image is emitted exactly when its resolution ends and
\* is left as it is until the next image is taken, and a step whose
\* fetches all failed retains what was retained before it (no data) and goes
\* on to the next candidate or the next pass.
C14_FetchFailuresIsolated ==
    /\ []((rs.pc /= "done" /\ reqs /= <<>> /\ ~reqs[Len(reqs)].ok) => ENABLED Next)
    /\ []((rs.pc = "done") <=> (row /= NoRow))
    /\ [][ /\ (row /= NoRow /\ row' /= row) => (row' = NoRow /\ img' /= img)
           /\ AllNewFailed =>
                /\ Match(rs') = Match(rs)
                /\ GoesOn("release", rs.release_candidates, {"master", "search", "final"})
                /\ GoesOn("master", rs.master_candidates, {"search", "final"})
                /\ GoesOn("hits", rs.search_results, {"final"})
                /\ rs.pc = "search" => rs'.search_results = <<>> /\ rs'.pc = "final"
         ]_vars

\* The first release fetch of an image failed, a later request succeeded, and
\* the image's row is a match.
C14_Witness ==
    /\ rs.pc = "done"
    /\ row.status = "matched"
    /\ Len(reqs) >= 2
    /\ reqs[1].op = "release" /\ ~reqs[1].ok
    /\ reqs[2].ok

\* C15: for a response that carries an error no catalog request is issued,
\* the resolution goes from its beginning straight to its row, the row has
\* status review_needed, confidence unknown, no release id and the message of
\* the error, and if the response is not the last one of the batch the next
\* response is taken.
C15_VisionErrorShortCircuits ==
    img.error /= "" =>
      /\ reqs = <<>>
      /\ rs.pc \in {"begin", "done"}
      /\ row /= NoRow =>
           /\ row.status = "review_needed"
           /\ row.confidence_level = "unknown"
           /\ row.discogs_release_id = NoneId
           /\ row.error_message = img.error
      /\ (row /= NoRow /\ ~img.last) => ENABLED NextImage

\* The row of a response with an error, a release page of the service and
\* text has been emitted, and more responses follow.
C15_Witness ==
    /\ img.error /= ""
    /\ ~img.last
    /\ \E k \in 1..Len(img.pages) :
          IsDiscogsUrl(img.pages[k]) /\ img.pages[k].kind = "release"
    /\ img.best_guess /= PyNone
    /\ row /= NoRow

\* The step issues a catalog request of kind op.
IssuedNow(op) ==
    \E k \in (Len(reqs) + 1)..Len(reqs') : reqs'[k].op = op

\* The requests issued for the image so far that are of kind op.
Issued(op) == {k \in 1..Len(reqs) : reqs[k].op = op}

\* The passes in their order.
PassRank(pc) ==
    CASE pc = "begin" -> 0 [] pc = "release" -> 1 [] pc = "master" -> 2
      [] pc = "search" -> 3 [] pc = "hits" -> 4 [] pc = "final" -> 5
      [] pc = "done" -> 6

\* C16: the passes of an image run in the order release pass, master pass,
\* text search and never go back; a master resolution is issued only if no
\* release fetched so far is target-format and preferred-region and no search
\* was issued before it; a search is issued only when no release id is
\* retained, after every release candidate was fetched and every master
\* candidate was resolved.
C16_PassOrder ==
    [][ /\ img' = img => PassRank(rs'.pc) >= PassRank(rs.pc)
        /\ IssuedNow("master") =>
             /\ rs.pc = "master"
             /\ \A k \in 1..Len(reqs) : ~FetchedPreferred(k)
             /\ Issued("search") = {}
        /\ IssuedNow("search") =>
             /\ rs.pc = "search"
             /\ rs.release_id = NoneId
             /\ Len(reqs) >= Len(rs.release_candidates)
             /\ \A k \in 1..Len(rs.release_candidates) :
                   reqs[k] \in {Req("release", rs.release_candidates[k].id, ok) : ok \in BOOLEAN}
             /\ Cardinality(Issued("master")) = Len(rs.master_candidates)
             /\ Issued("search") = {}
      ]_vars

\* An image for which all three passes issued requests, in their order.
C16_Witness ==
    /\ Resolved
    /\ \E a, b, c \in 1..Len(reqs) :
          /\ a < b /\ b < c
          /\ reqs[a].op = "release" /\ reqs[a].ok
          /\ reqs[b].op = "master"
          /\ reqs[c].op = "search"

\* The requests the step has issued.
NewRequests == (Len(reqs) + 1)..Len(reqs')

\* The step's master resolved to a target-format, preferred-region release:
\* the fetch of that release is the last request of the resolution.
ResolvedPreferredNow ==
    /\ IssuedNow("master")
    /\ reqs'[Len(reqs')].op = "release" /\ reqs'[Len(reqs')].ok
    /\ Preferred(reqs'[Len(reqs')].id)

\* The target-format releases the step's master resolution has fetched.
TargetFetchedNow ==
    {reqs'[k].id : k \in {j \in NewRequests :
                            reqs'[j].op = "release" /\ reqs'[j].ok /\ TargetFormat(reqs'[j].id)}}

\* C17: in the master pass, a master that resolves to a target-format,
\* preferred-region release ends the pass and is retained with method
\* master_url, the candidate's URL and both flags true, whatever was retained
\* before; a master that resolves to nothing better than a target-format,
\* wrong-region release is adopted (method master_url, flags true/false) when
\* no release id is retained, and otherwise leaves id, URL and method as
\* they are.
C17_MasterPass ==
    [][ IssuedNow("master") =>
          /\ ResolvedPreferredNow =>
               /\ rs'.release_id = reqs'[Len(reqs')].id
               /\ rs'.match_url = rs.master_candidates[rs.i]
               /\ rs'.match_method = "master_url"
               /\ rs'.is_vinyl /\ rs'.is_us
               /\ rs'.pc \in {"search", "final"}
          /\ (~ResolvedPreferredNow /\ rs.release_id /= NoneId) =>
               /\ rs'.release_id = rs.release_id
               /\ rs'.match_url = rs.match_url
               /\ rs'.match_method = rs.match_method
          /\ (~ResolvedPreferredNow /\ rs.release_id = NoneId) =>
               IF TargetFetchedNow = {} THEN rs'.release_id = NoneId
               ELSE /\ rs'.release_id \in TargetFetchedNow
                    /\ rs'.match_url = rs.master_candidates[rs.i]
                    /\ rs'.match_method = "master_url"
                    /\ rs'.is_vinyl /\ ~rs'.is_us
      ]_vars

\* A wrong-region fallback of the release pass (release 2) was replaced by
\* the preferred-region release 5 that a master resolved to.
C17_Witness ==
    /\ Resolved
    /\ Len(reqs) >= 3
    /\ reqs[1] = Req("release", 2, TRUE)
    /\ reqs[2].op = "master"
    /\ rs.release_id = 5
    /\ row.discogs_release_id = 5
    /\ rs.match_method = "master_url"

\* discogs_release_from_master has been applied; what it was applied to and
\* what it gave.
MasterApplied == p.done /\ p.in.fn = "discogs_release_from_master"
NoFailures(f) == ~f.fail_master /\ f.fail_fetches = {} /\ f.fail_page = 0

\* The versions of a master that have an id, in page and list order.
RECURSIVE Flatten(_)
Flatten(pages) ==
    IF pages = <<>> THEN <<>>
    ELSE SelectSeq(Head(pages), LAMBDA v : v /= NoneId) \o Flatten(Tail(pages))

\* The release fetches among the requests R, and those that returned a
\* preferred (target-format, preferred-region) or a target-format release.
ReleaseFetches(R) == SelectSeq(R, LAMBDA q : q.op = "release")
PreferredFetches(R) == SelectSeq(R, LAMBDA q : q.op = "release" /\ q.ok /\ Preferred(q.id))
TargetFetches(R) == SelectSeq(R, LAMBDA q : q.op = "release" /\ q.ok /\ TargetFormat(q.id))
IdsOf(R) == [k \in 1..Len(R) |-> R[k].id]
IsPrefix(a, b) == Len(a) <= Len(b) /\ a = SubSeq(b, 1, Len(a))

\* What the claim names for a master m, read off the catalog.
FirstOr(q, none) == IF q = <<>> THEN none ELSE Head(q)
ExpectedRelease(m) ==
    LET vs == Flatten(m.versions)
        main == m.main_release
    IN  IF main /= NoneId /\ Preferred(main) THEN main
        ELSE IF SelectSeq(vs, Preferred) /= <<>> THEN Head(SelectSeq(vs, Preferred))
        ELSE IF main /= NoneId /\ TargetFormat(main) THEN main
        ELSE FirstOr(SelectSeq(vs, TargetFormat), NoneId)

\* C18: discogs_release_from_master fetches the main release and then the
\* versions in page and list order. It returns the first fetched release that
\* is target-format and preferred-region, and that fetch is its last request
\* (none for the main release is followed by a versions page); failing one,
\* the first fetched target-format release, the main release coming first;
\* failing that, (None, False, False). The flags are the validation of the
\* returned release. When no request fails this is the release the catalog
\* determines: the main release if preferred, else the first preferred
\* version, else the main release if target-format, else the first
\* target-format version, else none.
C18_MasterResolution ==
    MasterApplied =>
      LET m == Masters[p.in.master_id]
          R == p.out[1].reqs
          res == p.out[1].result
          pref == PreferredFetches(R)
          targ == TargetFetches(R)
          plan == (IF m.main_release /= NoneId THEN <<m.main_release>> ELSE <<>>)
                    \o Flatten(m.versions)
      IN  /\ IsPrefix(IdsOf(ReleaseFetches(R)), plan)
          /\ pref /= <<>> =>
               /\ res.id = pref[1].id /\ res.is_vinyl /\ res.is_us
               /\ R[Len(R)] = pref[1]
               /\ (m.main_release /= NoneId /\ R[2] = pref[1])
                    => \A k \in 1..Len(R) : R[k].op /= "versions"
          /\ (pref = <<>> /\ targ /= <<>>) =>
               res.id = targ[1].id /\ res.is_vinyl /\ ~res.is_us
          /\ targ = <<>> => res.id = NoneId /\ ~res.is_vinyl /\ ~res.is_us
          /\ res.id /= NoneId =>
               /\ res.is_vinyl = validate_release_is_vinyl_and_us(Catalog[res.id]).is_vinyl
               /\ res.is_us = validate_release_is_vinyl_and_us(Catalog[res.id]).is_us
          /\ NoFailures(p.in.f) =>
               /\ res.id = ExpectedRelease(m)
               /\ pref = <<>> => IdsOf(ReleaseFetches(R)) = plan

\* Master 5 resolved with no failure: the main release (wrong region) and the
\* version before release 1 were fetched, release 1 is returned, and the
\* version after it was not fetched.
C18_Witness ==
    /\ MasterApplied
    /\ p.in.master_id = 5
    /\ NoFailures(p.in.f)
    /\ p.out[1].result.id = 1
    /\ IdsOf(ReleaseFetches(p.out[1].reqs)) = <<2, 3, 1>>

\* split_top_candidate_urls has been applied.
SplitApplied == p.done /\ p.in.fn = "split_top_candidate_urls"

\* The host of the URL belongs to the discography service.
IsServiceHost(u) == u.host = "discogs.com"

\* The place of the first occurrence of u in the sequence q.
FirstAt(q, u) == CHOOSE i \in 1..Len(q) : q[i] = u /\ \A j \in 1..(i - 1) : q[j] /= u

\* list holds, in the order of their first occurrence in pages and without
\* repetition, the first `limit` URLs of pages that satisfy Belongs.
IsOrderedPart(list, pages, limit, Belongs(_)) ==
    /\ Len(list) <= limit
    /\ \A a \in 1..Len(list) :
          /\ \E i \in 1..Len(pages) : pages[i] = list[a]
          /\ Belongs(list[a])
          /\ \A b \in (a + 1)..Len(list) :
                list[a] /= list[b] /\ FirstAt(pages, list[a]) < FirstAt(pages, list[b])
    /\ \A i \in 1..Len(pages) :
          (Belongs(pages[i]) /\ \A a \in 1..Len(list) : list[a] /= pages[i])
            => /\ Len(list) = limit
               /\ FirstAt(pages, list[limit]) < i

\* C19: split_top_candidate_urls keeps the order of first occurrence, drops
\* repeated URLs, and gives two disjoint lists of at most `limit` URLs: the
\* first holds the URLs whose host belongs to the discography service, the
\* second the URLs whose host does not.
C19_SplitByServiceHost ==
    SplitApplied =>
      /\ IsOrderedPart(p.out[1].discogs, p.in.pages, p.in.limit, IsServiceHost)
      /\ IsOrderedPart(p.out[1].other, p.in.pages, p.in.limit,
                       LAMBDA u : ~IsServiceHost(u))
      /\ \A a \in 1..Len(p.out[1].discogs) : \A b \in 1..Len(p.out[1].other) :
            p.out[1].discogs[a] /= p.out[1].other[b]

\* The URLs of a list of candidates.
Members(q) == {q[k] : k \in 1..Len(q)}

\* C20: only same-service URLs are classified: every release-type and
\* master-type candidate of an image is a URL of its same-service candidate
\* list, and a row resolved by release_url or master_url has
\* has_discogs_candidate true.
C20_OnlySameServiceClassified ==
    /\ (img.error = "" /\ rs.pc /= "begin") =>
          /\ Members(rs.release_candidates) \subseteq Members(rs.discogs_candidates)
          /\ Members(rs.master_candidates) \subseteq Members(rs.discogs_candidates)
    /\ (Resolved /\ rs.match_method \in {"release_url", "master_url"})
          => row.has_discogs_candidate

-----------------------------------------------------------------------------
(***************************************************************************)
(* Properties of the retrying HTTP invoker (SpecHttp)                      *)
(***************************************************************************)

\* What holds of a call with tries >= 1 at every moment.
C10_Safe ==
    h.tries >= 1 =>
      /\ Len(h.log) <= h.tries
      /\ \A k \in 1..(Len(h.log) - 1) : AttemptFails(h.log[k])
      /\ h.pc = "loop" => \A k \in 1..Len(h.log) : AttemptFails(h.log[k])
      /\ h.pc = "done" =>
           /\ h.log /= <<>>
           /\ h.result.kind \in {"return", "raise"}
           /\ h.result.attempt = Len(h.log)
           /\ h.result.status = h.log[Len(h.log)].status
           /\ h.result.kind = "return" <=> ~AttemptFails(h.log[Len(h.log)])
           /\ h.result.kind = "raise" => Len(h.log) = h.tries

\* C10: a call with tries = n >= 1 terminates, sends at most n requests, stops
\* at the first attempt that gets a non-error response and returns it (never
\* None), and when all n attempts fail raises the error of the n-th.
C10_RetryTerminates ==
    /\ []C10_Safe
    /\ (h.tries >= 1) => <>(h.pc = "done")

\* C10's case: every attempt of a call with the most tries failed, the first
\* with a 429, and the last attempt's error was raised.
C10_Witness ==
    /\ h.pc = "done"
    /\ h.tries = MaxTries
    /\ Len(h.log) = MaxTries
    /\ h.log[1].status = 429
    /\ h.result.kind = "raise"
    /\ h.result.status = 503

\* A permanent status: a 4xx other than 429.
IsPermanentStatus(s) == s >= 400 /\ s <= 499 /\ s /= 429

\* C11: a request answered with a permanent status (a 4xx other than 429) is
\* the last one of its call, GET or POST: no attempt follows it, and the call
\* has ended by raising the error.
C11_PermanentNotRetried ==
    \A k \in 1..Len(h.log) :
      IsPermanentStatus(h.log[k].status) =>
        /\ k = Len(h.log)
        /\ h.pc = "done"
        /\ h.result.kind = "raise"

\* The sleeps that followed attempt k.
SleepsOf(k) == SelectSeq(h.sleeps, LAMBDA s : s.after = k)

\* C12: in http_get_with_retry, an attempt k that failed with a transient
\* status or a network exception and that another attempt followed is followed
\* by a sleep; when the status was not 429, by exactly one backoff sleep of
\* base_delay * 2^(k-1).
C12_BackoffBetweenAttempts ==
    h.verb = "GET" =>
      \A k \in 1..Len(h.log) :
        (k < h.attempt /\ ~IsPermanentStatus(h.log[k].status)) =>
          /\ SleepsOf(k) /= <<>>
          /\ (h.log[k].status = NetExc
                \/ (IsTransientStatus(h.log[k].status) /\ h.log[k].status /= 429))
               => SleepsOf(k) = <<[after |-> k, kind |-> "backoff",
                                   units |-> Pow2(k - 1)]>>

-----------------------------------------------------------------------------
(***************************************************************************)
(* Properties of the reconciliation workflows (SpecRecon)                  *)
(***************************************************************************)

AddRequests == {k \in 1..Len(sent) : sent[k].op = "add"}
MoveRequests == {k \in 1..Len(sent) : sent[k].op = "move"}
FieldRequests == {k \in 1..Len(sent) : sent[k].op = "set_field"}

\* C3: the add step, run for a release the remote collection already holds an
\* instance of (whatever folder that instance is in), issues no add request:
\* every add request is sent for a release the collection held no instance of.
C3_AddStepIdempotent ==
    \A k \in AddRequests : sent[k].held = 0

\* C4: the move loop issues no move request for an instance that is already
\* in its owner's target folder: every move request names an instance that
\* was, when the request was sent, in another folder than the target.
C4_NoMoveWithinTarget ==
    \A k \in MoveRequests : sent[k].was /= sent[k].target

\* The move loop has found an instance already in its target folder, and the
\* run has ended without a move request.
C4_Witness ==
    /\ wf.pc = "done"
    /\ wf.found_in_uncategorized >= 1
    /\ wf.move_failed = {}
    /\ MoveRequests = {}

\* C5: an item whose instance id equals its release id is not in the list of
\* instances the update loop goes through, and no field-update request is
\* sent for it, whatever its condition fields hold.
C5_AliasedInstanceNeverUpdated ==
    /\ \A k \in FieldRequests : sent[k].instance_id /= sent[k].release_id
    /\ \A k \in 1..Len(wf.instances) :
         wf.instances[k].instance_id /= wf.instances[k].release_id

\* The collection holds an instance whose id is its release id and whose media
\* condition is missing, and the update loop has run and sent field updates.
C5_Witness ==
    /\ wf.pc = "done"
    /\ FieldRequests /= {}
    /\ \E i \in DOMAIN coll :
         /\ coll[i].release_id = i
         /\ NeedsCondition(coll[i].media_condition)

MutatingRequests == {"add", "create_folder", "move", "set_field"}

\* C9: no step of a run removes anything: every instance and every folder of
\* the remote collection is still there after the step, each folder under the
\* id it had, and the only mutating requests sent are add-instance,
\* create-folder, move-instance and set-field.
C9_NoRemoval ==
    [][ /\ DOMAIN coll \subseteq DOMAIN coll'
        /\ DOMAIN folders \subseteq DOMAIN folders'
        /\ \A n \in DOMAIN folders : folders'[n] = folders[n]
        /\ \A k \in 1..Len(sent') : sent'[k].op \in MutatingRequests ]_vars

\* A run has added an instance, created a folder, moved an instance and set a
\* field.
C9_Witness ==
    /\ wf.pc = "done"
    /\ \A op \in MutatingRequests : \E k \in 1..Len(sent) : sent[k].op = op

\* The request a step has sent, when it has sent exactly one.
SendsOne == Len(sent') = Len(sent) + 1
Last(q) == q[Len(q)]

\* C13: a step whose add request is answered with a conflict counts the
\* release as added, reports no failure for it and goes on to the next
\* release; a step whose move request is answered with a conflict counts the
\* release as moved (discogs_move_instance returned True) and reports no
\* failure; in neither case does the run end.
C13_ConflictIsSuccess ==
    [][ (SendsOne /\ Last(sent').out = "conflict") =>
          /\ Last(sent').op = "add" =>
               /\ wf'.added = wf.added + 1
               /\ wf'.add_failed = wf.add_failed
               /\ wf'.pc = "add" /\ wf'.i = wf.i + 1
          /\ Last(sent').op = "move" =>
               /\ wf'.moved_count = wf.moved_count + 1
               /\ wf'.move_failed = wf.move_failed
               /\ wf'.pc = "move" /\ wf'.i = wf.i + 1 ]_vars

\* A run has ended in which an add or a move was answered with a conflict.
C13_Witness ==
    /\ wf.pc = "done"
    /\ \E k \in 1..Len(sent) :
         sent[k].out = "conflict" /\ sent[k].op \in {"add", "move"}

-----------------------------------------------------------------------------
(***************************************************************************)
(* Properties of validate_release_is_vinyl_and_us (SpecPure)               *)
(***************************************************************************)

\* validate_release_is_vinyl_and_us has been applied to a release body.
ValidateApplied == p.done /\ p.in.fn = "validate_release_is_vinyl_and_us"

\* Equality of strings up to case, and up to case and surrounding blanks.
SameIgnoringCase(a, b) == Lower(a) = Lower(b)
SameTrimmedIgnoringCase(a, b) == Lower(Strip(a)) = Lower(Strip(b))

\* The reason of a release that is not target-format lists its formats.
ListsFormats(reason, formats) ==
    reason = <<"Not vinyl (formats: ">> \o [i \in 1..Len(formats) |-> Strip(formats[i])]
               \o <<")">>

\* C21 as claimed: the result of validate_release_is_vinyl_and_us is read off
\* the release with equality up to case: preferred-region only when
\* target-format; (false, false, reason listing the formats) when no format
\* equals "vinyl" up to case; when target-format, preferred-region exactly
\* when the country equals "US" up to case, and an empty country gives a
\* reason of its own.
C21_ValidateUpToCase ==
    (ValidateApplied /\ ~p.in.release_data.empty) =>
      LET r == p.in.release_data
          out == p.out[1]
          target == \E i \in 1..Len(r.formats) : SameIgnoringCase(r.formats[i], "vinyl")
      IN  /\ out.is_us => out.is_vinyl
          /\ ~target => /\ ~out.is_vinyl /\ ~out.is_us
                        /\ ListsFormats(out.reason, r.formats)
          /\ target => /\ out.is_vinyl
                       /\ out.is_us <=> SameIgnoringCase(r.country, "US")
                       /\ (r.country = "") <=> (out.reason = <<"Vinyl, country not specified">>)

\* C21, amended: the same with names and country compared after their
\* surrounding blanks are stripped, for a release body that is not empty; an
\* empty body gives (false, false, "No release data").
C21_ValidateTrimmedUpToCase ==
    ValidateApplied =>
      LET r == p.in.release_data
          out == p.out[1]
          target == \E i \in 1..Len(r.formats) :
                       SameTrimmedIgnoringCase(r.formats[i], "vinyl")
      IN  /\ out.is_us => out.is_vinyl
          /\ r.empty => out = [is_vinyl |-> FALSE, is_us |-> FALSE,
                               reason |-> <<"No release data">>]
          /\ (~r.empty /\ ~target) =>
                /\ ~out.is_vinyl /\ ~out.is_us
                /\ ListsFormats(out.reason, r.formats)
          /\ (~r.empty /\ target) =>
                /\ out.is_vinyl
                /\ out.is_us <=> SameTrimmedIgnoringCase(r.country, "US")
                /\ (Strip(r.country) = "")
                     <=> (out.reason = <<"Vinyl, country not specified">>)
                /\ (~out.is_us /\ Strip(r.country) /= "")
                     => out.reason = <<"Vinyl, ", Strip(r.country), " (not US)">>

\* A release whose second format is " VINYL " and whose country is " US " has
\* been validated as target-format and preferred-region.
C21_Witness ==
    /\ ValidateApplied
    /\ p.in.release_data.formats = <<"CD", " VINYL ">>
    /\ p.in.release_data.country = " US "
    /\ p.out[1].is_vinyl /\ p.out[1].is_us

-----------------------------------------------------------------------------
(***************************************************************************)
(* Properties of the confidence written to a row (Spec)                    *)
(***************************************************************************)

\* The method of the result, as confidence_bucket receives it.
MethodOf(l) == IF Truthy(l.match_method) THEN l.match_method ELSE "unknown"

\* C22 as claimed: the confidence of a row is the value the table of
\* confidence_bucket gives for (method, target-format, preferred-region,
\* has same-service candidates), whatever the non-service candidate URLs of
\* the image are.
C22_ConfidenceFromFour ==
    Resolved =>
      row.confidence_level =
        confidence_bucket(MethodOf(rs), rs.has_discogs, rs.is_vinyl, rs.is_us)

\* C22, amended: the confidence of a row is a function of (method,
\* target-format, preferred-region, has same-service candidates, has
\* non-service candidates): "very_low" when the result is not a match (no
\* method, or not target-format), there is no same-service candidate and there
\* is a non-service one, and the value of the table otherwise.
C22_ConfidenceFromFive ==
    Resolved =>
      /\ (rs.match_method = PyNone) <=> (rs.release_id = NoneId)
      /\ (row.status = "review_needed") <=> (rs.match_method = PyNone \/ ~rs.is_vinyl)
      /\ row.has_discogs_candidate = rs.has_discogs
      /\ row.confidence_level =
           IF (rs.match_method = PyNone \/ ~rs.is_vinyl)
                /\ ~rs.has_discogs /\ rs.other_candidates /= <<>>
             THEN "very_low"
             ELSE confidence_bucket(MethodOf(rs), rs.has_discogs, rs.is_vinyl, rs.is_us)

\* An image with only a non-service candidate URL and no method: the table
\* gives "unknown" for its four values, its row has "very_low".
C22_Witness ==
    /\ Resolved
    /\ rs.match_method = PyNone /\ ~rs.is_vinyl /\ ~rs.is_us /\ ~rs.has_discogs
    /\ rs.other_candidates /= <<>>
    /\ row.confidence_level = "very_low"
    /\ confidence_bucket(MethodOf(rs), rs.has_discogs, rs.is_vinyl, rs.is_us) = "unknown"

-----------------------------------------------------------------------------
(***************************************************************************)
(* Properties of discogs_get_or_create_folder (SpecFolders)                *)
(***************************************************************************)

\* The create requests of the run for a name that the remote applied and
\* answered.
CreatedOk(name) ==
    {k \in 1..Len(sent) : sent[k].op = "create_folder" /\ sent[k].target = name
                            /\ sent[k].out = "ok"}

\* C23: in a run of discogs_get_or_create_folder calls, a call whose folder
\* listing holds the name sends no create request and returns the listed id;
\* a call that creates the folder and obtains its id leaves no memoized
\* listing behind; every later call for that name returns the same id and
\* sends no create request, so that no name is created with success twice.
C23_GetOrCreateIdempotent ==
    /\ [](wf.pc = "calls" =>
           /\ \A k \in 1..Len(wf.calls) :
                 wf.calls[k].name \in DOMAIN wf.calls[k].names
                   => ~wf.calls[k].create /\ wf.calls[k].id = wf.calls[k].names[wf.calls[k].name]
           /\ \A k \in 1..Len(wf.calls) : \A j \in (k + 1)..Len(wf.calls) :
                 (wf.calls[k].create /\ wf.calls[k].id /= NoneId
                    /\ wf.calls[j].name = wf.calls[k].name)
                   => ~wf.calls[j].create /\ wf.calls[j].id = wf.calls[k].id
           /\ \A name \in FolderNames : Cardinality(CreatedOk(name)) <= 1)
    /\ [][ (Len(sent') > Len(sent) /\ sent'[Len(sent')].out = "ok")
             => wf'.names_cache = <<>> ]_vars

\* Mom's folder was created by the first call, and a later call for Mom
\* returned its id.
C23_Witness ==
    /\ wf.pc = "calls"
    /\ Len(wf.calls) = 3
    /\ wf.calls[1].name = "Mom" /\ wf.calls[1].create /\ wf.calls[1].id /= NoneId
    /\ wf.calls[3].name = "Mom" /\ wf.calls[3].id = wf.calls[1].id

-----------------------------------------------------------------------------
(***************************************************************************)
(* Properties of update_conditions_workflow (SpecRecon)                    *)
(***************************************************************************)

FieldOf(instance, field) ==
    IF field = "media_condition" THEN instance.media_condition
    ELSE instance.sleeve_condition

ConditionFields == {"media_condition", "sleeve_condition"}

\* The entries of the listing the update loop works through that are of the
\* instance.
ListedAs(instance_id) ==
    {j \in 1..Len(wf.instances) : wf.instances[j].instance_id = instance_id}

\* The field requests sent for one field of one instance.
FieldRequestsFor(instance_id, field) ==
    {k \in FieldRequests : sent[k].instance_id = instance_id /\ sent[k].target = field}

NoFieldRequestFailed == \A k \in FieldRequests : sent[k].out = "ok"

\* C24: in update_conditions_workflow a field request is sent only for a
\* listed instance whose field is null or blank in the listing (a field with
\* a value is never written); when the loop has ended and no field request
\* failed, every listed instance with a null or blank field had a request
\* for that field; and no field of an instance gets more than one request.
C24_OneUpdatePerMissingField ==
    wf.pc \in {"update", "done"} =>
      /\ \A k \in FieldRequests :
           \E j \in ListedAs(sent[k].instance_id) :
              NeedsCondition(FieldOf(wf.instances[j], sent[k].target))
      /\ (wf.pc = "done" /\ NoFieldRequestFailed) =>
           \A j \in 1..Len(wf.instances) : \A field \in ConditionFields :
              NeedsCondition(FieldOf(wf.instances[j], field))
                => FieldRequestsFor(wf.instances[j].instance_id, field) /= {}
      /\ \A i \in DOMAIN coll : \A field \in ConditionFields :
           Cardinality(FieldRequestsFor(i, field)) <= 1

\* The first two parts of C24 alone: requests only for missing fields, and a
\* request for every missing field.
C24_UpdatesOnlyMissingFields ==
    wf.pc \in {"update", "done"} =>
      /\ \A k \in FieldRequests :
           \E j \in ListedAs(sent[k].instance_id) :
              NeedsCondition(FieldOf(wf.instances[j], sent[k].target))
      /\ (wf.pc = "done" /\ NoFieldRequestFailed) =>
           \A j \in 1..Len(wf.instances) : \A field \in ConditionFields :
              NeedsCondition(FieldOf(wf.instances[j], field))
                => FieldRequestsFor(wf.instances[j].instance_id, field) /= {}

-----------------------------------------------------------------------------
(***************************************************************************)
(* main_workflow: the label-response cache and the report rows             *)
(* (workflows.py 453-557, vision_cache.py, vision_api.py)                  *)
(***************************************************************************)

\* The most images under the input prefix.
MaxImages == 3
ImageNames == 1..MaxImages

GCS_BUCKET == "your-bucket"
VISION_SYNC_CHUNK == 8
\* `imgs[:10]`, `len(cached_responses) >= 10`, `resp_dicts[:10]`
TestLimit == 10

\* helpers.gcs_uri: f"gs://{GCS_BUCKET}/{obj}"
gcs_uri(obj) == <<"gs://", GCS_BUCKET, obj>>

\* A response dict of the label service, as run_vision_sync returns it and
\* the cache file holds it: its context.uri and whether it has an error.
Response(uri, error) == [uri |-> uri, error |-> error]
NoResponse == [uri |-> PyNone]
\* `uris[idx] if idx < len(uris) else None`: the None a response past the end
\* of the locators is given for its context.uri.
NoUri == <<>>

\* load_vision_cache: what earlier runs saved, each response under the
\* locator it was obtained for; {} when there is no file.
LoadedCaches ==
    UNION { {[u \in {gcs_uri(n) : n \in S} |-> Response(u, e[u])] :
               e \in [{gcs_uri(n) : n \in S} -> BOOLEAN]} : S \in SUBSET ImageNames }

\* vision_cache.get_vision_result: cache.get(uri)
get_vision_result(cache, uri) ==
    IF uri \in DOMAIN cache THEN cache[uri] ELSE NoResponse

\* `if cached_result:` in main_workflow: a response dict is never empty.
UseCached(cached_result) == cached_result /= NoResponse

\* vision_cache.set_vision_result: cache[uri] = result
set_vision_result(cache, uri, result) == (uri :> result) @@ cache

\* `for resp in new_responses: ... set_vision_result(vision_cache, src_uri, resp)`
RECURSIVE StoreAll(_, _)
StoreAll(cache, responses) ==
    IF responses = <<>> THEN cache
    ELSE StoreAll(IF Head(responses).uri /= PyNone /\ Head(responses).uri /= NoUri
                    THEN set_vision_result(cache, Head(responses).uri, Head(responses))
                    ELSE cache,
                  Tail(responses))

\* The bucket's images in the order list_blobs gives them.
InitVision ==
    /\ \E S \in SUBSET ImageNames \ {{}}, loaded \in LoadedCaches, test \in BOOLEAN :
         wf = [pc |-> "classify", test_discogs_match |-> test,
               imgs |-> Take(SetToSeq(S), IF test THEN TestLimit ELSE MaxImages),
               i |-> 1,
               loaded |-> loaded, file |-> loaded, saved |-> "no",
               vision_cache |-> loaded,
               imgs_to_process |-> <<>>, cached_responses |-> <<>>,
               src_uris |-> <<>>, asked |-> 0, idx |-> 0, new_responses |-> <<>>,
               resp_dicts |-> <<>>, rows |-> <<>>]
    /\ sent = <<>>
    /\ faults = 0
    /\ coll = Idle /\ folders = Idle
    /\ h = Idle /\ p = Idle /\ img = Idle /\ rs = Idle /\ reqs = Idle /\ row = Idle

\* workflows.py 541-548: `resp_dicts = cached_responses + new_responses`, cut
\* to the first ten in test mode; the rows are made from it.
StartProcessing(w, new_responses) ==
    LET all == w.cached_responses \o new_responses
    IN  [w EXCEPT !.new_responses = new_responses,
                  !.resp_dicts = IF w.test_discogs_match THEN Take(all, TestLimit) ELSE all,
                  !.i = 1, !.pc = "process"]

\* workflows.py 494-502: one image of the partition loop.
Classify ==
    /\ wf.pc = "classify"
    /\ wf.i <= Len(wf.imgs)
    /\ LET name == wf.imgs[wf.i]
           uri == gcs_uri(name)
           cached_result == get_vision_result(wf.vision_cache, uri)
       IN  wf' = IF UseCached(cached_result)
                   THEN [wf EXCEPT !.cached_responses = Append(@, cached_result),
                                   !.i = wf.i + 1]
                   ELSE [wf EXCEPT !.imgs_to_process = Append(@, <<name, uri>>),
                                   !.i = wf.i + 1]
    /\ UNCHANGED <<coll, folders, sent, faults, httpVars, pureVars, resVars>>

\* workflows.py 507-513: the partition is over; in test mode enough cached
\* results mean no new image is processed; without new images no client.
ClassifyEnds ==
    /\ wf.pc = "classify"
    /\ wf.i > Len(wf.imgs)
    /\ LET to_process == IF wf.test_discogs_match
                              /\ Len(wf.cached_responses) >= TestLimit
                           THEN <<>> ELSE wf.imgs_to_process
       IN  wf' = IF to_process = <<>>
                   THEN StartProcessing([wf EXCEPT !.imgs_to_process = <<>>], <<>>)
                   ELSE [wf EXCEPT !.pc = "download", !.i = 1]
    /\ UNCHANGED <<coll, folders, sent, faults, httpVars, pureVars, resVars>>

\* workflows.py 520-532: the bytes of one image to process are downloaded; a
\* failed download is reported and the image left out.
Download ==
    /\ wf.pc = "download"
    /\ wf.i <= Len(wf.imgs_to_process)
    /\ \E ok \in BOOLEAN :
         /\ Fail(Cost(ok))
         /\ wf' = IF ok
                    THEN [wf EXCEPT !.src_uris = Append(@, wf.imgs_to_process[wf.i][2]),
                                    !.i = wf.i + 1]
                    ELSE [wf EXCEPT !.i = wf.i + 1]
    /\ UNCHANGED <<coll, folders, sent, httpVars, pureVars, resVars>>

\* workflows.py 534: `if requests_list:`
DownloadEnds ==
    /\ wf.pc = "download"
    /\ wf.i > Len(wf.imgs_to_process)
    /\ wf' = IF wf.src_uris = <<>> THEN StartProcessing(wf, <<>>)
             ELSE [wf EXCEPT !.pc = "vision"]
    /\ UNCHANGED <<coll, folders, sent, faults, httpVars, pureVars, resVars>>

\* vision_api.run_vision_sync, one chunk: the next requests (`asked` counts
\* those sent so far) go to the service, which returns `got` responses, each
\* a result or an error; a count other than the chunk's is reported and the
\* run goes on. Each response is given the locator at the running index
\* `idx`, None past the end of the locators. A call that raises ends the run.
VisionBatch ==
    /\ wf.pc = "vision"
    /\ wf.asked < Len(wf.src_uris)
    /\ LET n == Min(VISION_SYNC_CHUNK, Len(wf.src_uris) - wf.asked)
           chunk == SubSeq(wf.src_uris, wf.asked + 1, wf.asked + n)
       IN  \E answered \in BOOLEAN, got \in 0..(n + 1) :
           \E errors \in [1..got -> BOOLEAN] :
             /\ ~answered => got = 0
             /\ Fail(Cost(answered))
             /\ sent' = sent \o [k \in 1..n |-> [op |-> "annotate", uri |-> chunk[k]]]
             /\ wf' = IF ~answered THEN [wf EXCEPT !.pc = "crashed"]
                      ELSE [wf EXCEPT
                              !.new_responses =
                                 @ \o [k \in 1..got |->
                                         Response(IF wf.idx + k <= Len(wf.src_uris)
                                                    THEN wf.src_uris[wf.idx + k]
                                                    ELSE NoUri,
                                                  errors[k])],
                              !.asked = wf.asked + n,
                              !.idx = wf.idx + got]
    /\ UNCHANGED <<coll, folders, httpVars, pureVars, resVars>>

\* How save_vision_cache ends: the file is written; open(..., 'w') fails and
\* the file is as it was; or the file is opened, which empties it, and the
\* write fails, which leaves a file that load_vision_cache reads as {}.
SaveOutcomes == {"written", "failed", "destroyed"}

\* workflows.py 539-543 with save_vision_cache: every new response is put in
\* the cache under its context.uri and the file written; a failed save is
\* reported and the run goes on. `file` is what load_vision_cache would read.
SaveCache ==
    /\ wf.pc = "vision"
    /\ wf.asked >= Len(wf.src_uris)
    /\ \E saved \in SaveOutcomes :
         LET cache == StoreAll(wf.vision_cache, wf.new_responses)
         IN  /\ Fail(Cost(saved = "written"))
             /\ wf' = StartProcessing(
                         [wf EXCEPT !.vision_cache = cache,
                                    !.file = CASE saved = "written" -> cache
                                               [] saved = "failed" -> wf.file
                                               [] saved = "destroyed" -> <<>>,
                                    !.saved = saved],
                         wf.new_responses)
    /\ UNCHANGED <<coll, folders, sent, httpVars, pureVars, resVars>>

\* process_vision_responses, one response: one row, for an error response
\* too; what the resolver finds for the image is the row's status.
ProcessResponse ==
    /\ wf.pc = "process"
    /\ wf.i <= Len(wf.resp_dicts)
    /\ LET resp == wf.resp_dicts[wf.i]
       IN  \E status \in (IF resp.error THEN {"review_needed"}
                          ELSE {"matched", "review_needed"}) :
             wf' = [wf EXCEPT !.rows = Append(@, [image_gcs_uri |-> resp.uri,
                                                  status |-> status,
                                                  error_message |-> resp.error]),
                              !.i = wf.i + 1]
    /\ UNCHANGED <<coll, folders, sent, faults, httpVars, pureVars, resVars>>

ProcessEnds ==
    /\ wf.pc = "process"
    /\ wf.i > Len(wf.resp_dicts)
    /\ wf' = [wf EXCEPT !.pc = "done"]
    /\ UNCHANGED <<coll, folders, sent, faults, httpVars, pureVars, resVars>>

NextVision ==
    \/ Classify
    \/ ClassifyEnds
    \/ Download
    \/ DownloadEnds
    \/ VisionBatch
    \/ SaveCache
    \/ ProcessResponse
    \/ ProcessEnds

SpecVision == InitVision /\ [][NextVision]_vars

-----------------------------------------------------------------------------
(***************************************************************************)
(* Properties of the label-response cache (SpecVision)                     *)
(***************************************************************************)

Submitted == {sent[k].uri : k \in 1..Len(sent)}
Obtained == {wf.new_responses[k] : k \in 1..Len(wf.new_responses)}
ResolutionStarted == wf.pc \in {"process", "done"}

\* C25: no locator with an entry in the loaded cache is submitted to the
\* label service, an entry that is an error result included; once resolution
\* has started every response obtained in the run (that was given a
\* locator) is in the cache under its locator and the cache has been flushed (the file holds what the cache
\* holds); every entry of the loaded cache is still in the cache and in the
\* file, unchanged.
C25_CacheNeverRecomputed ==
    /\ Submitted \cap DOMAIN wf.loaded = {}
    /\ ResolutionStarted =>
         /\ \A resp \in Obtained : resp.uri /= NoUri =>
              /\ resp.uri \in DOMAIN wf.vision_cache
              /\ wf.vision_cache[resp.uri] = resp
         /\ Obtained /= {} => wf.file = wf.vision_cache
    /\ \A u \in DOMAIN wf.loaded :
         /\ u \in DOMAIN wf.vision_cache /\ wf.vision_cache[u] = wf.loaded[u]
         /\ u \in DOMAIN wf.file /\ wf.file[u] = wf.loaded[u]

\* What holds: the same of the cache in memory; the save has been called
\* before resolution starts, the file holds what the cache holds when it
\* was written, and the loaded entries are in the file unless a save that
\* failed after opening the file emptied it.
C25_CacheKeptInMemory ==
    /\ Submitted \cap DOMAIN wf.loaded = {}
    /\ ResolutionStarted =>
         /\ \A resp \in Obtained : resp.uri /= NoUri =>
              /\ resp.uri \in DOMAIN wf.vision_cache
              /\ wf.vision_cache[resp.uri] = resp
         /\ Obtained /= {} => wf.saved /= "no"
         /\ wf.saved = "written" => wf.file = wf.vision_cache
    /\ \A u \in DOMAIN wf.loaded :
         /\ u \in DOMAIN wf.vision_cache /\ wf.vision_cache[u] = wf.loaded[u]
         /\ wf.saved /= "destroyed" =>
              u \in DOMAIN wf.file /\ wf.file[u] = wf.loaded[u]

RowsOf(uri) == {k \in 1..Len(wf.rows) : wf.rows[k].image_gcs_uri = uri}

\* C26: when a run that is not a test run has made its rows, there is
\* exactly one row for every image enumerated under the input prefix.
C26_OneRowPerImage ==
    (wf.pc = "done" /\ ~wf.test_discogs_match) =>
       \A k \in 1..Len(wf.imgs) : Cardinality(RowsOf(gcs_uri(wf.imgs[k]))) = 1

\* What holds of the rows: at most one per image, none with the locator of
\* an image that was not enumerated (a response beyond the locators makes a
\* row without one), and one for every image whose result was cached or
\* that a response of the run was given the locator of.
C26_OneRowPerResponse ==
    wf.pc = "done" =>
       /\ \A k \in 1..Len(wf.imgs) : Cardinality(RowsOf(gcs_uri(wf.imgs[k]))) <= 1
       /\ \A k \in 1..Len(wf.rows) :
            \/ wf.rows[k].image_gcs_uri = NoUri
            \/ \E j \in 1..Len(wf.imgs) : wf.rows[k].image_gcs_uri = gcs_uri(wf.imgs[j])
       /\ \A k \in 1..Len(wf.imgs) :
            (gcs_uri(wf.imgs[k]) \in DOMAIN wf.loaded \cup {resp.uri : resp \in Obtained})
              => RowsOf(gcs_uri(wf.imgs[k])) /= {}

-----------------------------------------------------------------------------
(***************************************************************************)
(* Properties of the add step under lost answers (SpecRecon)               *)
(***************************************************************************)

\* C27: one iteration of the add loop for a release the collection holds no
\* instance of leaves at most one instance of that release in the remote
\* collection, whatever the outcomes of its requests, an add that is applied
\* with its answer lost and then sent again included.
C27_AddCreatesAtMostOne ==
    [][ (wf.pc = "add" /\ wf.i <= Len(wf.to_add)
           /\ InstancesOf(coll, wf.to_add[wf.i]) = {})
          => Cardinality(InstancesOf(coll', wf.to_add[wf.i])) <= 1 ]_vars

-----------------------------------------------------------------------------
(***************************************************************************)
(* Properties of confidence_bucket for URL matches (SpecPure)              *)
(***************************************************************************)

\* C28: confidence_bucket returns "high" for method release_url with
\* is_vinyl and is_us both true, and "medium" for method master_url with
\* is_vinyl true and is_us either way, whatever has_discogs_candidates is.
C28_UrlMatchBuckets ==
    ConfidenceApplied =>
      /\ (p.in.method = "release_url" /\ p.in.is_vinyl /\ p.in.is_us)
           => p.out = <<"high">>
      /\ (p.in.method = "master_url" /\ p.in.is_vinyl) => p.out = <<"medium">>

\* confidence_bucket was applied to a master_url match of a vinyl release
\* from elsewhere, with no Discogs candidate.
C28_Witness ==
    /\ ConfidenceApplied
    /\ p.in.method = "master_url" /\ p.in.is_vinyl /\ ~p.in.is_us
    /\ ~p.in.has_discogs_candidates
    /\ p.out = <<"medium">>

-----------------------------------------------------------------------------
(***************************************************************************)
(* src/spotify_api.py: clean_artist_name_for_spotify, spotify_search_album *)
(* src/spotify_playlists.py: the album match of one release                *)
(***************************************************************************)

\* The most albums one search returns.
MaxAlbums == 2

\* The titles and artist names of the catalog's releases, and those of the
\* streaming service's albums.
AlbumTitles == {"Point", "point", "Point (Remastered)"}
ArtistNames == {"Kansas (2)", "KANSAS"}
SpotifyAlbumNames == {"Point", "POINT", "Point (Remastered)", "Point (Deluxe)"}
SpotifyArtistLists == {<<"Kansas">>, <<"Boston", "KANSAS">>, <<"Boston">>}
\* The release year of an album (0: no release_date) and of the catalog's
\* release (0: None).
SpotifyYears == {0, 1976, 1980}
DiscogsYears == {0, 1977}

\* str.lower on these names.
LowerName(s) ==
    CASE s \in {"Point", "POINT", "point"} -> "point"
      [] s = "Point (Remastered)"          -> "point (remastered)"
      [] s = "Point (Deluxe)"              -> "point (deluxe)"
      [] s \in {"Kansas", "KANSAS"}        -> "kansas"
      [] s = "Kansas (2)"                  -> "kansas (2)"
      [] s = "Boston"                      -> "boston"
      [] OTHER                             -> s

\* `kw in name` for a lower-cased name.
HasKeyword(name, kw) ==
    \/ name = "point (remastered)" /\ kw = "remastered"
    \/ name = "point (deluxe)" /\ kw = "deluxe"

\* re.sub(r'\s*\(\d+\)\s*$', '', artist_name).strip()
clean_artist_name_for_spotify(artist_name) ==
    IF artist_name = "Kansas (2)" THEN "Kansas" ELSE artist_name

Abs(n) == IF n < 0 THEN -n ELSE n

\* An album of the search results.
Album(id, name, artists, year) ==
    [id |-> id, name |-> name, artists |-> artists, year |-> year]
NoAlbum == [id |-> NoneId]

\* `album_name == album_title.lower() and cleaned_artist_lower in album_artists`
IsExactMatch(album, album_title, cleaned_artist) ==
    /\ LowerName(album.name) = LowerName(album_title)
    /\ \E k \in 1..Len(album.artists) :
          LowerName(album.artists[k]) = LowerName(cleaned_artist)

\* Heuristic 2: the first exact match whose year is closest to the catalog's,
\* within two years; NoAlbum when there is none.
RECURSIVE ClosestByYear(_, _, _, _)
ClosestByYear(exact_matches, discogs_year, best_match, best_diff) ==
    IF exact_matches = <<>> THEN best_match
    ELSE LET album == Head(exact_matches)
             diff == Abs(album.year - discogs_year)
         IN  IF album.year /= 0 /\ diff <= 2 /\ (best_diff < 0 \/ diff < best_diff)
               THEN ClosestByYear(Tail(exact_matches), discogs_year, album, diff)
               ELSE ClosestByYear(Tail(exact_matches), discogs_year, best_match, best_diff)

\* Heuristic 3: the first exact match that is a deluxe edition when the
\* catalog title names one, a plain edition when it does not.
RECURSIVE ByEdition(_, _)
ByEdition(exact_matches, has_deluxe_keywords) ==
    IF exact_matches = <<>> THEN NoAlbum
    ELSE LET album_name_lower == LowerName(Head(exact_matches).name)
         IN  IF ~has_deluxe_keywords
                  /\ ~\E kw \in {"deluxe", "special edition", "expanded"} :
                        HasKeyword(album_name_lower, kw)
               THEN Head(exact_matches)
             ELSE IF has_deluxe_keywords
                  /\ \E kw \in {"deluxe", "special", "expanded"} :
                        HasKeyword(album_name_lower, kw)
               THEN Head(exact_matches)
             ELSE ByEdition(Tail(exact_matches), has_deluxe_keywords)

\* spotify_search_album(album_title, artist_name, discogs_year, sp): the album
\* it returns for the albums the search gives; NoAlbum for (None, None).
spotify_search_album(album_title, artist_name, discogs_year, answered, albums) ==
    LET cleaned_artist == clean_artist_name_for_spotify(artist_name)
        exact_matches == SelectSeq(albums,
                            LAMBDA a : IsExactMatch(a, album_title, cleaned_artist))
        best_match == ClosestByYear(exact_matches, discogs_year, NoAlbum, -1)
        has_deluxe_keywords ==
            \E kw \in {"deluxe", "special", "expanded", "remastered"} :
               HasKeyword(LowerName(album_title), kw)
        edition == ByEdition(exact_matches, has_deluxe_keywords)
    IN  IF ~answered THEN NoAlbum
        ELSE IF albums = <<>> THEN NoAlbum
        ELSE IF Len(exact_matches) = 1 THEN exact_matches[1]
        ELSE IF Len(exact_matches) > 1 /\ discogs_year /= 0 /\ best_match /= NoAlbum
          THEN best_match
        ELSE IF exact_matches /= <<>>
          THEN (IF edition /= NoAlbum THEN edition ELSE exact_matches[1])
        ELSE albums[1]

\* One release and what the search gives for it: up to MaxAlbums albums, or
\* an exception.
InitAlbum ==
    /\ \E album_title \in AlbumTitles, artist_name \in ArtistNames,
          year \in DiscogsYears, answered \in BOOLEAN,
          n \in 0..MaxAlbums :
         /\ ~answered => n = 0
         /\ \E f \in [1..n -> SpotifyAlbumNames \X SpotifyArtistLists \X SpotifyYears] :
               p = [in |-> [album_title |-> album_title, artist_name |-> artist_name,
                            year |-> year, answered |-> answered,
                            albums |-> [k \in 1..n |->
                                          Album(k, f[k][1], f[k][2], f[k][3])]],
                    done |-> FALSE, out |-> <<>>]
    /\ h = Idle /\ img = Idle /\ rs = Idle /\ reqs = Idle /\ row = Idle
    /\ coll = Idle /\ folders = Idle /\ wf = Idle /\ sent = Idle /\ faults = Idle

\* spotify_playlists.py 202-228: the album search for one release; its
\* tracks are taken from the album when there is one, searched one by one
\* otherwise.
MatchRelease ==
    /\ ~p.done
    /\ LET album == spotify_search_album(p.in.album_title, p.in.artist_name,
                                         p.in.year, p.in.answered, p.in.albums)
       IN  p' = [p EXCEPT !.done = TRUE,
                   !.out = [album |-> album,
                            tracks_from |-> IF album.id /= NoneId
                                              THEN "album" ELSE "track_search"]]
    /\ UNCHANGED <<h, img, rs, reqs, row, coll, folders, wf, sent, faults>>

NextAlbum == MatchRelease

SpecAlbum == InitAlbum /\ [][NextAlbum]_vars

-----------------------------------------------------------------------------
(***************************************************************************)
(* Properties of spotify_search_album (SpecAlbum)                          *)
(***************************************************************************)

\* C29: the album spotify_search_album returns has a name equal to the
\* catalog title up to case and has the cleaned catalog artist among its
\* artists; when no album of the search results is such a match no album
\* is returned and the tracks of the release are searched one by one.
C29_AlbumOnlyOnExactMatch ==
    p.done =>
      LET cleaned == clean_artist_name_for_spotify(p.in.artist_name)
      IN  /\ p.out.album /= NoAlbum
               => IsExactMatch(p.out.album, p.in.album_title, cleaned)
          /\ (\A k \in 1..Len(p.in.albums) :
                 ~IsExactMatch(p.in.albums[k], p.in.album_title, cleaned))
               => p.out.album = NoAlbum /\ p.out.tracks_from = "track_search"

-----------------------------------------------------------------------------
(***************************************************************************)
(* src/spotify_playlists.py: build_spotify_playlists with an existing      *)
(* playlist; src/spotify_api.py: spotify_get_playlist_tracks,              *)
(* spotify_add_tracks_to_playlist                                          *)
(***************************************************************************)

\* The track URIs of the short albums, and the most releases of one run.
MaxUris == 3
MaxReleases == 2
TrackUris == 1..MaxUris

\* `batch_size = 100` in spotify_add_tracks_to_playlist.
BatchSize == 100

\* An album of n tracks that are in no short album.
LongAlbum(n) == [k \in 1..n |-> MaxUris + k]

\* The track URIs one release contributes to all_new_tracks: those of its
\* album, or the ones its per-track search matched.
TrackLists ==
    {<<>>, <<1>>, <<1, 2>>, <<2, 3>>, LongAlbum(BatchSize), LongAlbum(BatchSize + 1)}

\* spotify_get_playlist_tracks: the URIs of the playlist; set() when a page
\* request raises.
spotify_get_playlist_tracks(playlist, fetched) ==
    IF fetched THEN playlist ELSE {}

InitPlaylist ==
    /\ \E playlist \in SUBSET TrackUris, releases \in SeqsUpTo(TrackLists, MaxReleases) :
         wf = [pc |-> "fetch", playlist_at_start |-> playlist, playlist |-> playlist,
               releases |-> releases, i |-> 1,
               existing_playlist_tracks |-> {}, all_new_tracks |-> <<>>,
               new_tracks |-> <<>>, added |-> 0]
    /\ sent = <<>>
    /\ faults = 0
    /\ coll = Idle /\ folders = Idle
    /\ h = Idle /\ p = Idle /\ img = Idle /\ rs = Idle /\ reqs = Idle /\ row = Idle

\* spotify_playlists.py 83-86
FetchPlaylist ==
    /\ wf.pc = "fetch"
    /\ \E fetched \in BOOLEAN :
         /\ Fail(Cost(fetched))
         /\ wf' = [wf EXCEPT !.existing_playlist_tracks =
                                 spotify_get_playlist_tracks(wf.playlist, fetched),
                             !.pc = "collect"]
    /\ UNCHANGED <<coll, folders, sent, httpVars, pureVars, resVars>>

\* spotify_playlists.py 185-279, one release: `all_new_tracks.extend(...)`
CollectRelease ==
    /\ wf.pc = "collect"
    /\ wf.i <= Len(wf.releases)
    /\ wf' = [wf EXCEPT !.all_new_tracks = @ \o wf.releases[wf.i], !.i = wf.i + 1]
    /\ UNCHANGED <<coll, folders, sent, faults, httpVars, pureVars, resVars>>

\* spotify_playlists.py 291-306: the tracks the playlist was found to hold
\* are left out; without new tracks nothing is added.
FilterTracks ==
    /\ wf.pc = "collect"
    /\ wf.i > Len(wf.releases)
    /\ LET new_tracks == SelectSeq(wf.all_new_tracks,
                            LAMBDA uri : uri \notin wf.existing_playlist_tracks)
       IN  wf' = [wf EXCEPT !.new_tracks = new_tracks, !.i = 0,
                            !.pc = IF new_tracks = <<>> THEN "done" ELSE "add"]
    /\ UNCHANGED <<coll, folders, sent, faults, httpVars, pureVars, resVars>>

\* spotify_add_tracks_to_playlist, one batch: a failed request is reported
\* and the next batch sent.
AddBatch ==
    /\ wf.pc = "add"
    /\ wf.i < Len(wf.new_tracks)
    /\ LET batch == SubSeq(wf.new_tracks, wf.i + 1,
                           Min(wf.i + BatchSize, Len(wf.new_tracks)))
       IN  \E ok \in BOOLEAN :
             /\ Fail(Cost(ok))
             /\ sent' = Append(sent, [op |-> "playlist_add_items", batch |-> batch,
                                      out |-> IF ok THEN "ok" ELSE "error"])
             /\ wf' = [wf EXCEPT
                         !.playlist = IF ok THEN @ \cup {batch[k] : k \in 1..Len(batch)}
                                      ELSE @,
                         !.added = IF ok THEN @ + Len(batch) ELSE @,
                         !.i = wf.i + BatchSize]
    /\ UNCHANGED <<coll, folders, httpVars, pureVars, resVars>>

AddEnds ==
    /\ wf.pc = "add"
    /\ wf.i >= Len(wf.new_tracks)
    /\ wf' = [wf EXCEPT !.pc = "done"]
    /\ UNCHANGED <<coll, folders, sent, faults, httpVars, pureVars, resVars>>

NextPlaylist ==
    \/ FetchPlaylist
    \/ CollectRelease
    \/ FilterTracks
    \/ AddBatch
    \/ AddEnds

SpecPlaylist == InitPlaylist /\ [][NextPlaylist]_vars

-----------------------------------------------------------------------------
(***************************************************************************)
(* Properties of the existing-playlist mode (SpecPlaylist)                 *)
(***************************************************************************)

PassedToAdd == UNION {{sent[k].batch[j] : j \in 1..Len(sent[k].batch)} : k \in 1..Len(sent)}
Collected == {wf.all_new_tracks[k] : k \in 1..Len(wf.all_new_tracks)}

\* C30: no track URI the playlist held when the run started is passed to
\* playlist_add_items; when the run has ended every other collected URI has
\* been passed to it; and no batch passed has more than 100 URIs.
C30_OnlyNewTracksAdded ==
    /\ PassedToAdd \cap wf.playlist_at_start = {}
    /\ wf.pc = "done" => (Collected \ wf.playlist_at_start) \subseteq PassedToAdd
    /\ \A k \in 1..Len(sent) : Len(sent[k].batch) <= BatchSize

\* The second and third part of C30 alone, and the first for the tracks the
\* run found in the playlist.
C30_FoundTracksSkipped ==
    /\ PassedToAdd \cap wf.existing_playlist_tracks = {}
    /\ wf.pc = "done" => (Collected \ wf.playlist_at_start) \subseteq PassedToAdd
    /\ \A k \in 1..Len(sent) : Len(sent[k].batch) <= BatchSize

-----------------------------------------------------------------------------
(***************************************************************************)
(* Properties of the validity flags of a row (Spec)                        *)
(***************************************************************************)

\* C31: when the row of an image without error reports a release id, the
\* flags its status and confidence were computed from are the validation of
\* that release: is_vinyl and is_us are what
\* validate_release_is_vinyl_and_us gives for the release of that id.
C31_FlagsDescribeResolvedRelease ==
    (Resolved /\ row.discogs_release_id /= NoneId) =>
       /\ rs.is_vinyl = validate_release_is_vinyl_and_us(
                            Catalog[row.discogs_release_id]).is_vinyl
       /\ rs.is_us = validate_release_is_vinyl_and_us(
                         Catalog[row.discogs_release_id]).is_us

\* C32: a row whose status is "matched" has a confidence of high, medium,
\* low or very_low, never "unknown", whatever the method and the region of
\* the resolved release are.
C32_MatchedNeverUnknown ==
    (Resolved /\ row.status = "matched") =>
       row.confidence_level \in {"high", "medium", "low", "very_low"}

-----------------------------------------------------------------------------
(***************************************************************************)
(* The failure of an add or move POST as its caller reads it               *)
(* src/http_client.py: http_post_with_retry; src/workflows.py 392-398;     *)
(* src/discogs_api.py: discogs_move_instance                               *)
(***************************************************************************)

\* The user names and ids a request URL is built from.
Usernames == {"u", "AlreadyGone"}
UrlReleaseIds == {1, 409, 14092}
UrlInstanceIds == {7, 4090}
UrlFolderIds == {1, 2}

\* How the last attempt of the POST ends: answered 2xx (status 200), a
\* status raise_for_status raises for (404, 409), a status the retry loop
\* raises "Transient ..." for (500), a read timeout, or a connection error.
PostEndings == {"200", "404", "409", "500", "read_timeout", "connection_error"}

\* The text of the exception the caller catches: its status words and,
\* where the exception names the URL, the parts of the URL. HTTPError from
\* raise_for_status ends in "for url: <url>"; a connection error ends in
\* "with url: <path> (Caused by ...<connection object at 0x...>...)", which
\* also holds the address of the connection object, a hexadecimal number
\* that differs from run to run (`address_409`: it has the digits 409);
\* "Transient 500" and a read timeout name no URL.
ErrorMsg(ending, url, address_409) ==
    [status |-> ending,
     names_url |-> ending \in {"404", "409", "connection_error"},
     url |-> url,
     address_409 |-> ending = "connection_error" /\ address_409]

\* The URL of the add POST and of the move POST.
AddUrl(username, folder_id, release_id) ==
    [username |-> username, folder_id |-> folder_id, release_id |-> release_id,
     instance_id |-> NoneId]
MoveUrl(username, source_folder_id, release_id, instance_id) ==
    [username |-> username, folder_id |-> source_folder_id,
     release_id |-> release_id, instance_id |-> instance_id]

\* The decimal text of n contains "409".
RECURSIVE Has409(_)
Has409(n) ==
    IF n < 409 THEN FALSE
    ELSE n % 1000 = 409 \/ Has409(n \div 10)

\* `"already" in username.lower()`
NameHasAlready(username) == username = "AlreadyGone"

\* `"409" in error_msg or "already" in error_msg.lower()`
SaysConflict(error_msg) ==
    \/ error_msg.status = "409"
    \/ /\ error_msg.names_url
       /\ \/ Has409(error_msg.url.folder_id)
          \/ Has409(error_msg.url.release_id)
          \/ Has409(error_msg.url.instance_id)
          \/ NameHasAlready(error_msg.url.username)
    \/ error_msg.address_409

InitReport ==
    /\ \E op \in {"add", "move"}, username \in Usernames,
          release_id \in UrlReleaseIds, instance_id \in UrlInstanceIds,
          folder_id \in UrlFolderIds, ending \in PostEndings,
          address_409 \in BOOLEAN :
         /\ address_409 => ending = "connection_error"
         /\ p = [in |-> [op |-> op, username |-> username, release_id |-> release_id,
                      instance_id |-> instance_id, folder_id |-> folder_id,
                      ending |-> ending, address_409 |-> address_409],
              done |-> FALSE, out |-> <<>>]
    /\ h = Idle /\ img = Idle /\ rs = Idle /\ reqs = Idle /\ row = Idle
    /\ coll = Idle /\ folders = Idle /\ wf = Idle /\ sent = Idle /\ faults = Idle

\* workflows.py 380-398: the add POST of one release; `added` counts it when
\* the POST is answered or the caught exception says conflict.
ReportAdd ==
    /\ ~p.done
    /\ p.in.op = "add"
    /\ LET error_msg == ErrorMsg(p.in.ending,
                                 AddUrl(p.in.username, p.in.folder_id, p.in.release_id),
                                 p.in.address_409)
       IN  p' = [p EXCEPT !.done = TRUE,
                   !.out = [success |-> p.in.ending = "200" \/ SaysConflict(error_msg),
                            error_msg |-> error_msg]]
    /\ UNCHANGED <<h, img, rs, reqs, row, coll, folders, wf, sent, faults>>

\* discogs_move_instance for different folders: True when the POST is
\* answered or the caught exception says conflict, False otherwise.
ReportMove ==
    /\ ~p.done
    /\ p.in.op = "move"
    /\ LET error_msg == ErrorMsg(p.in.ending,
                                 MoveUrl(p.in.username, p.in.folder_id,
                                         p.in.release_id, p.in.instance_id),
                                 p.in.address_409)
       IN  p' = [p EXCEPT !.done = TRUE,
                   !.out = [success |-> p.in.ending = "200" \/ SaysConflict(error_msg),
                            error_msg |-> error_msg]]
    /\ UNCHANGED <<h, img, rs, reqs, row, coll, folders, wf, sent, faults>>

NextReport == ReportAdd \/ ReportMove

SpecReport == InitReport /\ [][NextReport]_vars

-----------------------------------------------------------------------------
(***************************************************************************)
(* Properties of the reporting of failed requests (SpecReport)             *)
(***************************************************************************)

\* C33: an add or move POST that ends in an error other than a conflict
\* (404, 500, a timeout, a connection error) is reported as a failure: the
\* add is not counted and discogs_move_instance returns False, whatever the
\* user name and the ids in the request URL are.
C33_FailureReported ==
    (p.done /\ p.in.ending \notin {"200", "409"}) => ~p.out.success

\* What holds: such a request is reported as a failure when the text of the
\* exception holds neither "409" nor "already", in its URL part or in the
\* address a connection error prints either.
C33_FailureReportedUnlessUrlSaysSo ==
    (p.done /\ p.in.ending \notin {"200", "409"}
       /\ ~p.out.error_msg.address_409
       /\ ~(p.out.error_msg.names_url
              /\ (Has409(p.in.release_id) \/ NameHasAlready(p.in.username)
                    \/ (p.in.op = "move" /\ Has409(p.in.instance_id)))))
      => ~p.out.success

-----------------------------------------------------------------------------
(***************************************************************************)
(* Properties of a refused folder creation (SpecFolders)                   *)
(***************************************************************************)

\* C34: a call of discogs_get_or_create_folder whose create request is
\* refused with a conflict, the remote holding a folder of that name already,
\* returns the id of that folder.
C34_ConflictReturnsExistingFolder ==
    \A i \in DOMAIN wf.calls :
        (wf.calls[i].create /\ wf.calls[i].out = "conflict") =>
           /\ wf.calls[i].name \in DOMAIN folders
           /\ wf.calls[i].id = folders[wf.calls[i].name]

-----------------------------------------------------------------------------
(***************************************************************************)
(* From the rows of a run to the releases added and filed                  *)
(* src/workflows.py: main_workflow 584-615, add_to_collection_and_organize *)
(***************************************************************************)

MaxRows == 3

\* The rows process_vision_responses can hand over, as far as this step
\* reads them: a matched row has a release id; the owner is a string, empty
\* for an image directly under the covers prefix.
RunRows ==
    [status : {"matched"}, discogs_release_id : Rids, owner : {"", "Dad", "Mom"},
     already_in_collection : {FALSE}]
    \cup [status : {"review_needed"}, discogs_release_id : {NoneId, 1},
          owner : {"Dad"}, already_in_collection : {FALSE}]

\* `release_to_owner[int(rid)] = owner` on a dict kept as the sequence of its
\* items: a key already present keeps its place and takes the new value.
DictSet_KeepFirst(d, k, v) ==
    IF \E j \in DOMAIN d : d[j][1] = k THEN d ELSE Append(d, <<k, v>>)
DictSet(d, k, v) ==
    IF \E j \in DOMAIN d : d[j][1] = k
      THEN [j \in DOMAIN d |-> IF d[j][1] = k THEN <<k, v>> ELSE d[j]]
      ELSE Append(d, <<k, v>>)

InitMain ==
    /\ \E n \in 1..MaxRows : \E rows \in [1..n -> RunRows] :
       \E existing_ids \in {{}, {1}} :
         wf = [pc |-> "dedup", rows |-> rows, existing_ids |-> existing_ids,
               i |-> 1, release_to_owner |-> <<>>, k |-> 1, to_add |-> <<>>]
    /\ sent = <<>>
    /\ h = Idle /\ p = Idle /\ img = Idle /\ rs = Idle /\ reqs = Idle /\ row = Idle
    /\ coll = Idle /\ folders = Idle /\ faults = Idle

\* main_workflow 584-593: list the collection and mark the rows; a listing
\* that fails is not caught.
MarkExisting ==
    /\ wf.pc = "dedup"
    /\ \E listed \in BOOLEAN :
         wf' = IF ~listed THEN [wf EXCEPT !.pc = "crashed"]
               ELSE [wf EXCEPT !.pc = "map",
                       !.rows = [j \in DOMAIN wf.rows |->
                                   [wf.rows[j] EXCEPT !.already_in_collection =
                                      wf.rows[j].discogs_release_id /= NoneId
                                      /\ wf.rows[j].discogs_release_id \in wf.existing_ids]]]
    /\ UNCHANGED <<sent, coll, folders, faults, httpVars, pureVars, resVars>>

\* main_workflow 600-610: one row of the loop that builds release_to_owner.
MapRow ==
    /\ wf.pc = "map"
    /\ wf.i <= Len(wf.rows)
    /\ LET r == wf.rows[wf.i]
           add_mask == r.status = "matched" /\ ~r.already_in_collection
       IN  wf' = [wf EXCEPT !.i = @ + 1,
                    !.release_to_owner =
                        IF add_mask /\ r.discogs_release_id /= NoneId /\ r.owner /= ""
                          THEN DictSet(@, r.discogs_release_id, r.owner)
                          ELSE @]
    /\ UNCHANGED <<sent, coll, folders, faults, httpVars, pureVars, resVars>>

MapEnds ==
    /\ wf.pc = "map"
    /\ wf.i > Len(wf.rows)
    /\ wf' = [wf EXCEPT !.pc = "add", !.k = 1]
    /\ UNCHANGED <<sent, coll, folders, faults, httpVars, pureVars, resVars>>

\* add_to_collection_and_organize 376-398: one release of the add loop. The
\* lookup finds an instance, finds none, or fails; the add request is sent
\* when none is found.
AddRelease ==
    /\ wf.pc = "add"
    /\ wf.k <= Len(wf.release_to_owner)
    /\ LET rid == wf.release_to_owner[wf.k][1]
       IN  /\ wf' = [wf EXCEPT !.k = @ + 1, !.to_add = Append(@, rid)]
           /\ \E lookup \in {"none", "found", "failed"}, out \in {"ok", "error"} :
                /\ (lookup /= "none") => out = "ok"
                /\ sent' = IF lookup = "none"
                             THEN Append(sent, [op |-> "add", release_id |-> rid,
                                                target |-> "", out |-> out])
                             ELSE sent
    /\ UNCHANGED <<coll, folders, faults, httpVars, pureVars, resVars>>

MainAddEnds ==
    /\ wf.pc = "add"
    /\ wf.k > Len(wf.release_to_owner)
    /\ wf' = [wf EXCEPT !.pc = "organize", !.k = 1]
    /\ UNCHANGED <<sent, coll, folders, faults, httpVars, pureVars, resVars>>

\* add_to_collection_and_organize 402-441: one release of the move loop. The
\* owner's folder is there or could not be had; the instance is found in
\* folder 1 or not; the move request names the owner's folder.
MoveRelease ==
    /\ wf.pc = "organize"
    /\ wf.k <= Len(wf.release_to_owner)
    /\ LET rid == wf.release_to_owner[wf.k][1]
           owner == wf.release_to_owner[wf.k][2]
       IN  /\ wf' = [wf EXCEPT !.k = @ + 1]
           /\ \E has_folder \in BOOLEAN, found \in BOOLEAN, out \in {"ok", "error"} :
                /\ ~(has_folder /\ found) => out = "ok"
                /\ sent' = IF has_folder /\ found
                             THEN Append(sent, [op |-> "move", release_id |-> rid,
                                                target |-> owner, out |-> out])
                             ELSE sent
    /\ UNCHANGED <<coll, folders, faults, httpVars, pureVars, resVars>>

OrganizeEnds ==
    /\ wf.pc = "organize"
    /\ wf.k > Len(wf.release_to_owner)
    /\ wf' = [wf EXCEPT !.pc = "done"]
    /\ UNCHANGED <<sent, coll, folders, faults, httpVars, pureVars, resVars>>

NextMain ==
    \/ MarkExisting \/ MapRow \/ MapEnds \/ AddRelease \/ MainAddEnds
    \/ MoveRelease \/ OrganizeEnds

SpecMain == InitMain /\ [][NextMain]_vars

-----------------------------------------------------------------------------
(***************************************************************************)
(* Properties of the releases a run adds (SpecMain)                        *)
(***************************************************************************)

\* The rows that make a release eligible: matched, that release id, not
\* already in the collection, a non-empty owner.
EligibleRows(rid) ==
    {j \in DOMAIN wf.rows :
        /\ wf.rows[j].status = "matched"
        /\ wf.rows[j].discogs_release_id = rid
        /\ ~wf.rows[j].already_in_collection
        /\ wf.rows[j].owner /= ""}

RequestsOf(op, rid) ==
    {j \in DOMAIN sent : sent[j].op = op /\ sent[j].release_id = rid}

\* C35: in a finished run the add loop handled exactly the releases that
\* some eligible row names; each release is the subject of at most one add
\* request; and a release that is filed is filed under the owner of the last
\* eligible row that names it.
C35_AddStepReleases ==
    (wf.pc = "done") =>
       \A rid \in Rids :
          /\ (\E j \in DOMAIN wf.to_add : wf.to_add[j] = rid) <=> EligibleRows(rid) /= {}
          /\ Cardinality({j \in DOMAIN wf.to_add : wf.to_add[j] = rid}) <= 1
          /\ Cardinality(RequestsOf("add", rid)) <= 1
          /\ \A j \in RequestsOf("move", rid) :
                /\ EligibleRows(rid) /= {}
                /\ sent[j].target = wf.rows[MaxOf(EligibleRows(rid))].owner

\* Two images of different owners resolved to one release, which was added
\* and filed, beside a release that was in the collection already.
C35_Witness ==
    /\ wf.pc = "done"
    /\ \E rid \in Rids :
         /\ Cardinality(EligibleRows(rid)) >= 2
         /\ \E a, b \in EligibleRows(rid) : wf.rows[a].owner /= wf.rows[b].owner
         /\ RequestsOf("add", rid) /= {}
         /\ RequestsOf("move", rid) /= {}

-----------------------------------------------------------------------------
(***************************************************************************)
(* The batches of run_vision_sync                                          *)
(* src/vision_api.py: chunked, run_vision_sync; src/workflows.py 520-533   *)
(***************************************************************************)

MaxSyncImages == 3
MaxChunk == 2

\* workflows.py 520-533: the images whose download succeeded, in order; the
\* request and the locator of an image are appended together.
RECURSIVE Downloaded(_, _)
Downloaded(names, skipped) ==
    IF names = <<>> THEN <<>>
    ELSE IF Head(names) \in skipped THEN Downloaded(Tail(names), skipped)
    ELSE <<Head(names)>> \o Downloaded(Tail(names), skipped)

\* `chunked(seq, n)`: the slice seq[i:i+n] that starts after `done` items.
chunked(seq, n, done) == SubSeq(seq, done + 1, Min(done + n, Len(seq)))

\* run_vision_sync 39-43: the dicts of one batch take the locators
\* uris[idx], uris[idx+1], ..., None past the end of uris; `made_by` is the
\* image whose request the service answered with the dict (none for a dict
\* beyond the requests of the batch).
TagBatch(chunk, got, uris, idx) ==
    [k \in 1..got |->
        [uri |-> IF idx + k <= Len(uris) THEN uris[idx + k] ELSE PyNone,
         made_by |-> IF k <= Len(chunk) THEN gcs_uri(chunk[k]) ELSE PyNone]]

InitSync ==
    /\ \E n \in 1..MaxSyncImages, size \in 1..MaxChunk :
       \E skipped \in SUBSET (1..n) :
         LET names == Downloaded([k \in 1..n |-> k], skipped)
         IN  wf = [pc |-> IF names = <<>> THEN "done" ELSE "sync",
                   VISION_SYNC_CHUNK |-> size,
                   skipped |-> Cardinality(skipped),
                   requests_list |-> names,
                   uris |-> [k \in DOMAIN names |-> gcs_uri(names[k])],
                   done |-> 0, idx |-> 0, batches |-> <<>>, all_responses |-> <<>>]
    /\ h = Idle /\ p = Idle /\ img = Idle /\ rs = Idle /\ reqs = Idle /\ row = Idle
    /\ coll = Idle /\ folders = Idle /\ sent = Idle /\ faults = Idle

\* One turn of the loop of run_vision_sync: the next chunk is sent, the
\* service returns `got` dicts, answering the requests of the chunk from the
\* first on, and every dict is tagged at the running index.
SyncBatch ==
    /\ wf.pc = "sync"
    /\ wf.done < Len(wf.requests_list)
    /\ LET chunk == chunked(wf.requests_list, wf.VISION_SYNC_CHUNK, wf.done)
       IN  \E got \in 0..(Len(chunk) + 1) :
             wf' = [wf EXCEPT !.done = @ + Len(chunk),
                              !.idx = @ + got,
                              !.batches = Append(@, chunk),
                              !.all_responses = @ \o TagBatch(chunk, got, wf.uris, wf.idx)]
    /\ UNCHANGED <<coll, folders, sent, faults, httpVars, pureVars, resVars>>

SyncEnds ==
    /\ wf.pc = "sync"
    /\ wf.done >= Len(wf.requests_list)
    /\ wf' = [wf EXCEPT !.pc = "done"]
    /\ UNCHANGED <<coll, folders, sent, faults, httpVars, pureVars, resVars>>

NextSync == SyncBatch \/ SyncEnds

SpecSync == InitSync /\ [][NextSync]_vars

-----------------------------------------------------------------------------
(***************************************************************************)
(* Properties of run_vision_sync (SpecSync)                                *)
(***************************************************************************)

\* The batches sent are consecutive slices of the requests: none is empty or
\* longer than the chunk size, and together they are the requests, each
\* once and in order.
BatchesCoverRequests ==
    /\ \A b \in DOMAIN wf.batches :
          Len(wf.batches[b]) \in 1..wf.VISION_SYNC_CHUNK
    /\ Flatten(wf.batches) = wf.requests_list

\* C36: when run_vision_sync returns, its batches were consecutive slices of
\* at most VISION_SYNC_CHUNK requests covering every request once and in
\* order, and every response carries the locator of the image whose request
\* produced it, however many responses each batch returned.
C36_BatchesAndLocators ==
    (wf.pc = "done") =>
       /\ BatchesCoverRequests
       /\ \A k \in DOMAIN wf.all_responses :
             wf.all_responses[k].uri = wf.all_responses[k].made_by

\* What holds: the batches cover the requests; the locators are right on the
\* responses of a run in which every batch returned as many responses as it
\* had requests.
C36_LocatorsWhenCountsAgree ==
    (wf.pc = "done") =>
       /\ BatchesCoverRequests
       /\ (Len(wf.all_responses) = Len(wf.requests_list)
             /\ (\A k \in DOMAIN wf.all_responses :
                    wf.all_responses[k].made_by /= PyNone))
          => \A k \in DOMAIN wf.all_responses :
                wf.all_responses[k].uri = wf.all_responses[k].made_by

-----------------------------------------------------------------------------
(***************************************************************************)
(* The paginated drains                                                    *)
(* src/discogs_api.py: discogs_list_folder_release_ids,                    *)
(* discogs_list_folder_releases, discogs_get_instance_for_release,         *)
(* discogs_list_all_collection_instances, discogs_release_from_master      *)
(***************************************************************************)

MaxDrainPages == 3
MaxDrainFolders == 2

DrainKinds ==
    {"folder_release_ids", "folder_releases", "instance_for_release",
     "all_instances", "master_versions"}

\* The drains that return as soon as a page holds what they look for: the
\* instance of the release, the US vinyl version.
StopsWhenFound(kind) == kind \in {"instance_for_release", "master_versions"}

\* `pg.get("page", 1) < pg.get("pages", 1)`
HasNextPage_UpToLast(page, pages) == page <= pages
HasNextPage(page, pages) == page < pages

\* The server: it reports the number of pages of the listing and echoes the
\* page asked for.
Pagination(asked, pages) == [page |-> asked, pages |-> pages]

InitDrain ==
    /\ \E kind \in DrainKinds :
       \E nf \in (IF kind = "all_instances" THEN 1..MaxDrainFolders ELSE {1}) :
       \E pages \in [1..nf -> 1..MaxDrainPages] :
       \E holds \in (IF StopsWhenFound(kind) THEN 0..pages[1] ELSE {0}) :
         wf = [pc |-> "drain", kind |-> kind, pages |-> pages, holds |-> holds,
               f |-> 1, page |-> 1, requested |-> [k \in 1..nf |-> <<>>],
               found |-> FALSE, failed |-> FALSE]
    /\ h = Idle /\ p = Idle /\ img = Idle /\ rs = Idle /\ reqs = Idle /\ row = Idle
    /\ coll = Idle /\ folders = Idle /\ sent = Idle /\ faults = Idle

\* One turn of the `while True` loop of a drain: the page params["page"] is
\* asked for; a request that fails ends the drain (raised; caught at the end
\* of the versions drain); a page that holds what is looked for ends it;
\* else the next page is asked for while the pagination has one, and the
\* listing of all instances goes on with its next folder.
DrainPage ==
    /\ wf.pc = "drain"
    /\ \E answered \in BOOLEAN :
         LET asked == [wf EXCEPT !.requested[wf.f] = Append(@, wf.page)]
             pg == Pagination(wf.page, wf.pages[wf.f])
         IN  wf' = IF ~answered
                     THEN [asked EXCEPT !.failed = TRUE,
                             !.pc = IF wf.kind = "master_versions" THEN "done"
                                    ELSE "raised"]
                   ELSE IF StopsWhenFound(wf.kind) /\ wf.holds = pg.page
                     THEN [asked EXCEPT !.found = TRUE, !.pc = "done"]
                   ELSE IF HasNextPage(pg.page, pg.pages)
                     THEN [asked EXCEPT !.page = pg.page + 1]
                   ELSE IF wf.f < Len(wf.pages)
                     THEN [asked EXCEPT !.f = @ + 1, !.page = 1]
                   ELSE [asked EXCEPT !.pc = "done"]
    /\ UNCHANGED <<coll, folders, sent, faults, httpVars, pureVars, resVars>>

NextDrain == DrainPage

\* The loop takes its next turn as long as it has one.
SpecDrain == InitDrain /\ [][NextDrain]_vars /\ WF_vars(NextDrain)

-----------------------------------------------------------------------------
(***************************************************************************)
(* Properties of the paginated drains (SpecDrain)                          *)
(***************************************************************************)

\* The pages asked of every listing are 1, 2, ... in this order, each once,
\* none past the last page; a drain that ended with no failure and without
\* finding what stops it has asked for every page; the instance lookup finds
\* the instance on whichever page holds it and has asked for no later page.
PagesInOrder ==
    /\ \A f \in DOMAIN wf.requested :
          /\ Len(wf.requested[f]) <= wf.pages[f]
          /\ \A k \in DOMAIN wf.requested[f] : wf.requested[f][k] = k
    /\ (wf.pc = "done" /\ ~wf.failed /\ ~wf.found) =>
          \A f \in DOMAIN wf.requested : Len(wf.requested[f]) = wf.pages[f]
    /\ (wf.pc = "done" /\ ~wf.failed /\ wf.kind = "instance_for_release"
          /\ wf.holds /= 0) =>
          /\ wf.found
          /\ Len(wf.requested[1]) = wf.holds

\* C37: against a server that reports P pages and echoes the page asked for,
\* every drain asks for pages 1..P in increasing order, each at most once,
\* and ends; discogs_get_instance_for_release finds the instance whichever
\* page holds it and asks for no page after that one.
C37_DrainsInOrderAndEnd ==
    /\ []PagesInOrder
    /\ <>(wf.pc /= "drain")

\* The instance was on the second of three pages and the lookup ended there.
C37_Witness ==
    /\ wf.pc = "done"
    /\ wf.kind = "instance_for_release"
    /\ wf.pages[1] = 3
    /\ wf.holds = 2
    /\ wf.found
    /\ wf.requested[1] = <<1, 2>>

-----------------------------------------------------------------------------
(***************************************************************************)
(* Properties of the loops of the reconciliation (SpecRecon)               *)
(***************************************************************************)

\* C38: a remote failure while one release, instance or owner folder is
\* handled is caught at that unit, so a run never stops with units of a
\* loop left unattempted: when it has stopped, no owner is left whose folder
\* was never asked for.
C38_RemainingUnitsAttempted ==
    (wf.pc \in {"done", "crashed"}) => wf.unique_owners = {}

-----------------------------------------------------------------------------
(***************************************************************************)
(* The track-level fallback of the playlist builder                        *)
(* src/spotify_api.py: spotify_search_track;                               *)
(* src/spotify_playlists.py 243-262 (playlist mode), 491-512 (folder mode) *)
(***************************************************************************)

MaxTracks == 2

\* What one search of Spotify gives: an error, no item, or items of which
\* the first has the URI `uri`.
TrackSearches ==
    [kind : {"error", "empty"}, uri : {NoneId}]
    \cup [kind : {"hit"}, uri : 1..2]

\* A track of the Discogs tracklist with what the two searches for it would
\* give: the search with the album, the search with track and artist only.
TracklistEntries ==
    [titled : BOOLEAN, with_album : TrackSearches, plain : TrackSearches]

\* spotify_search_track: the search with the album is made when there is an
\* album title and its first item wins; else the plain search; None when
\* neither gave an item.
spotify_search_track(track, album_title) ==
    IF album_title /= "" /\ track.with_album.kind = "hit" THEN track.with_album.uri
    ELSE IF track.plain.kind = "hit" THEN track.plain.uri
    ELSE NoneId

\* `if track_uri:` in the playlist mode (spotify_playlists.py 250);
\* `if track_uri and track_uri not in all_track_uris:` in the folder mode (498).
TrackMatched(mode, track_uri, all_track_uris) ==
    IF mode = "playlist" THEN track_uri /= NoneId
    ELSE track_uri /= NoneId /\ track_uri \notin all_track_uris

InitTracks ==
    /\ \E mode \in {"playlist", "folders"}, album_title \in {"", "Album"},
          n \in 1..MaxTracks, earlier \in {{}, {1}} :
       \E tracklist \in [1..n -> TracklistEntries] :
         wf = [pc |-> "tracks", mode |-> mode, album_title |-> album_title,
               tracklist |-> tracklist, i |-> 1,
               all_track_uris |-> IF mode = "folders" THEN earlier ELSE {},
               matched_tracks |-> <<>>, unmatched_tracks |-> <<>>]
    /\ h = Idle /\ p = Idle /\ img = Idle /\ rs = Idle /\ reqs = Idle /\ row = Idle
    /\ coll = Idle /\ folders = Idle /\ sent = Idle /\ faults = Idle

\* One track of the loop over the tracklist: a track without a title is
\* passed over; a matched track is collected (and, in the folder mode, its
\* URI remembered); any other is put on the unmatched-tracks list with the
\* note "Track not found on Spotify".
TrackStep ==
    /\ wf.pc = "tracks"
    /\ wf.i <= Len(wf.tracklist)
    /\ LET track == wf.tracklist[wf.i]
           track_uri == spotify_search_track(track, wf.album_title)
           next == [wf EXCEPT !.i = @ + 1]
       IN  wf' = IF ~track.titled THEN next
                 ELSE IF TrackMatched(wf.mode, track_uri, wf.all_track_uris)
                   THEN [next EXCEPT
                           !.matched_tracks = Append(@, track_uri),
                           !.all_track_uris = IF wf.mode = "folders"
                                                THEN @ \cup {track_uri} ELSE @]
                 ELSE [next EXCEPT
                         !.unmatched_tracks =
                             Append(@, [track |-> wf.i,
                                        notes |-> "Track not found on Spotify"])]
    /\ UNCHANGED <<coll, folders, sent, faults, httpVars, pureVars, resVars>>

TracksEnd ==
    /\ wf.pc = "tracks"
    /\ wf.i > Len(wf.tracklist)
    /\ wf' = [wf EXCEPT !.pc = "done"]
    /\ UNCHANGED <<coll, folders, sent, faults, httpVars, pureVars, resVars>>

NextTracks == TrackStep \/ TracksEnd

SpecTracks == InitTracks /\ [][NextTracks]_vars

-----------------------------------------------------------------------------
(***************************************************************************)
(* Properties of the unmatched-tracks report (SpecTracks)                  *)
(***************************************************************************)

\* A search made for the track gave an item: the search with the album,
\* made when there is an album title, or the plain search made after it.
SearchGaveResult(track) ==
    \/ wf.album_title /= "" /\ track.with_album.kind = "hit"
    \/ track.plain.kind = "hit"

\* C39: in both modes a track is on the unmatched-tracks list only if
\* neither search gave a result for it; a track whose search returned a URI
\* is never reported as not found.
C39_ReportedOnlyWhenNotFound ==
    \A k \in DOMAIN wf.unmatched_tracks :
        ~SearchGaveResult(wf.tracklist[wf.unmatched_tracks[k].track])

\* What holds: a reported track was not found, or, in the folder mode, its
\* URI had been collected before.
C39_ReportedNotFoundOrSeen ==
    \A k \in DOMAIN wf.unmatched_tracks :
        LET track == wf.tracklist[wf.unmatched_tracks[k].track]
        IN  \/ ~SearchGaveResult(track)
            \/ wf.mode = "folders"
                 /\ spotify_search_track(track, wf.album_title) \in wf.all_track_uris

====
